---- MODULE Spec2Model ----
(***************************************************************************)
(* Model of the storage service: the per-user quota ledger, the general    *)
(* upload path, the folder-path and filename sanitizers, the folder tree   *)
(* operations and the text content editor of internal/service together     *)
(* with the file repository of internal/repository.                        *)
(*                                                                         *)
(* Strings the code computes on (folder paths, filenames) are sequences of *)
(* one-character strings, so that Trim, ReplaceAll, Split, LIKE and        *)
(* REPLACE are computed as the code and the database compute them.         *)
(* Error values are the messages of the errors the code returns; "" is nil.*)
(***************************************************************************)
EXTENDS Integers, Sequences, FiniteSets, TLC

VARIABLES
    users,      \* user id -> [MaxFiles, MaxFileSize, MaxStorage]
    files,      \* the files table: record id -> row
    disk,       \* the upload directory: physical path -> stored bytes
    nextID,     \* the files table's primary-key sequence
    nextUUID,   \* the next fresh physical filename
    pc,         \* request slot -> position inside the handler it runs
    req,        \* request slot -> arguments and locals of the running handler
    res,        \* what the handler that finished last returned
    fnArg,      \* input of the pure function under check
    fnRes       \* the results of applying it, in order

vars == <<users, files, disk, nextID, nextUUID, pc, req, res, fnArg, fnRes>>

svcVars == <<users, files, disk, nextID, nextUUID, pc, req, res>>

---------------------------------------------------------------------------
(* Bounds of the model. *)

MaxLen == 4

MaxUploads == 3

MaxTreeFiles == 2

MaxRootLen == 3

---------------------------------------------------------------------------
(* Go's strings and path/filepath packages, on sequences of characters. *)

Whitespace == {" ", "\t", "\n", "\r"}

RECURSIVE TrimLeft(_, _)
TrimLeft(s, cutset) ==
    IF s # <<>> /\ Head(s) \in cutset THEN TrimLeft(Tail(s), cutset) ELSE s

RECURSIVE TrimRight(_, _)
TrimRight(s, cutset) ==
    IF s # <<>> /\ s[Len(s)] \in cutset
    THEN TrimRight(SubSeq(s, 1, Len(s) - 1), cutset)
    ELSE s

Trim(s, cutset) == TrimRight(TrimLeft(s, cutset), cutset)

TrimSpace(s) == Trim(s, Whitespace)

HasPrefix(s, prefix) ==
    Len(s) >= Len(prefix) /\ SubSeq(s, 1, Len(prefix)) = prefix

Contains(s, sub) ==
    \E i \in 1..(Len(s) - Len(sub) + 1) : SubSeq(s, i, i + Len(sub) - 1) = sub

\* strings.ReplaceAll for a non-empty old: non-overlapping, left to right.
\* PostgreSQL's REPLACE(string, from, to) replaces the same occurrences.
RECURSIVE ReplaceAll(_, _, _)
ReplaceAll(s, old, new) ==
    IF s = <<>> THEN <<>>
    ELSE IF HasPrefix(s, old)
         THEN new \o ReplaceAll(SubSeq(s, Len(old) + 1, Len(s)), old, new)
         ELSE <<Head(s)>> \o ReplaceAll(Tail(s), old, new)

RECURSIVE Split(_, _)
Split(s, sep) ==
    IF \E i \in 1..Len(s) : s[i] = sep
    THEN LET i == CHOOSE k \in 1..Len(s) :
                      s[k] = sep /\ \A j \in 1..(k - 1) : s[j] # sep
         IN  <<SubSeq(s, 1, i - 1)>> \o Split(SubSeq(s, i + 1, Len(s)), sep)
    ELSE <<s>>

RECURSIVE Join(_, _)
Join(parts, sep) ==
    IF parts = <<>> THEN <<>>
    ELSE IF Len(parts) = 1 THEN parts[1]
    ELSE parts[1] \o <<sep>> \o Join(Tail(parts), sep)

\* filepath.Base with "/" as the separator.
Base(path) ==
    IF path = <<>> THEN <<".">>
    ELSE LET t == TrimRight(path, {"/"})
         IN  IF t = <<>> THEN <<"/">>
             ELSE LET parts == Split(t, "/") IN parts[Len(parts)]

\* filepath.Ext: the suffix from the last dot of the last path element.
Ext(path) ==
    LET last == LET parts == Split(path, "/") IN parts[Len(parts)]
        dots == {i \in 1..Len(last) : last[i] = "."}
    IN  IF dots = {} THEN <<>>
        ELSE LET i == CHOOSE k \in dots : \A j \in dots : j <= k
             IN  SubSeq(last, i, Len(last))

ToLowerChar(c) ==
    CASE c = "A" -> "a" [] c = "B" -> "b" [] c = "C" -> "c" [] c = "D" -> "d"
      [] c = "E" -> "e" [] c = "F" -> "f" [] c = "G" -> "g" [] c = "H" -> "h"
      [] c = "I" -> "i" [] c = "J" -> "j" [] c = "K" -> "k" [] c = "L" -> "l"
      [] c = "M" -> "m" [] c = "N" -> "n" [] c = "O" -> "o" [] c = "P" -> "p"
      [] c = "Q" -> "q" [] c = "R" -> "r" [] c = "S" -> "s" [] c = "T" -> "t"
      [] c = "U" -> "u" [] c = "V" -> "v" [] c = "W" -> "w" [] c = "X" -> "x"
      [] c = "Y" -> "y" [] c = "Z" -> "z" [] OTHER -> c

ToLower(s) == [i \in 1..Len(s) |-> ToLowerChar(s[i])]

\* PostgreSQL's  s LIKE pattern : % is any string, _ any one character,
\* backslash takes the next pattern character literally.
RECURSIVE Like(_, _)
Like(s, pattern) ==
    IF pattern = <<>> THEN s = <<>>
    ELSE IF Head(pattern) = "%"
         THEN Like(s, Tail(pattern)) \/ (s # <<>> /\ Like(Tail(s), pattern))
    ELSE IF Head(pattern) = "\\" /\ Len(pattern) >= 2
         THEN s # <<>> /\ Head(s) = pattern[2]
                       /\ Like(Tail(s), Tail(Tail(pattern)))
    ELSE s # <<>> /\ (Head(pattern) = "_" \/ Head(pattern) = Head(s))
                  /\ Like(Tail(s), Tail(pattern))

---------------------------------------------------------------------------
(* The path sanitizers of the file service. *)

sanitizeFolderPath(path) ==
    LET trimmed   == Trim(TrimSpace(path), {"/", "\\"})
        noDots    == ReplaceAll(trimmed, <<".", ".">>, <<>>)
        collapsed == ReplaceAll(noDots, <<"/", "/">>, <<"/">>)
    IN  ReplaceAll(collapsed, <<"\\">>, <<"/">>)

\* Runes below 32 and rune 127 are dropped; of those the model's alphabets
\* hold tab, newline and carriage return.
ControlChars == {"\t", "\n", "\r"}

sanitizeFilename(name) ==
    SelectSeq(Base(name), LAMBDA r : r \notin ControlChars)

---------------------------------------------------------------------------
(* All strings over an alphabet up to a length. *)

RECURSIVE StringsUpTo(_, _)
StringsUpTo(alphabet, n) ==
    IF n = 0 THEN {<<>>}
    ELSE LET shorter == StringsUpTo(alphabet, n - 1)
         IN  shorter \cup
             {Append(s, c) : s \in {t \in shorter : Len(t) = n - 1},
                             c \in alphabet}

PathAlphabet == {"/", "\\", ".", " ", "a"}

---------------------------------------------------------------------------
(* The data model: users with their limits, file rows, stored bytes. *)

Users == {1, 2}

\* Request slots: the requests the server handles at the same time.
Procs == {1, 2}

\* The bytes of an upload or of a stored file: their length, the type
\* http.DetectContentType sniffs from their first 512 bytes, and whether
\* that prefix holds one of the script markers ValidateFile scans for.
Bytes(len, detected, scripted) ==
    [Len |-> len, Detected |-> detected, Scripted |-> scripted]

NoBytes == Bytes(0, "", FALSE)

\* A multipart file header: declared filename, declared Content-Type, the
\* part's size (the length of its bytes) and the bytes it opens.
FileHeader(filename, contentType, body) ==
    [Filename |-> filename, Size |-> body.Len, ContentType |-> contentType,
     Body |-> body]

NoHeader == FileHeader(<<>>, "", NoBytes)

\* model.File without URL (never persisted) and CreatedAt.
File(id, userID, filename, originalName, filePath, folderPath, fileSize, mimeType) ==
    [ID |-> id, UserID |-> userID, Filename |-> filename,
     OriginalName |-> originalName, FilePath |-> filePath,
     FolderPath |-> folderPath, FileSize |-> fileSize, MimeType |-> mimeType]

NoFile == File(0, 0, 0, <<>>, 0, <<>>, 0, "")

\* model.User reduced to the limits the quota ledger reads.
User(maxFiles, maxFileSize, maxStorage) ==
    [MaxFiles |-> maxFiles, MaxFileSize |-> maxFileSize, MaxStorage |-> maxStorage]

Idle ==
    [op |-> "none", user |-> 0, fileID |-> 0, header |-> NoHeader,
     folderPath |-> <<>>, name |-> <<>>, content |-> NoBytes, file |-> NoFile,
     found |-> {}, filePath |-> 0, mimeType |-> "", oldPath |-> <<>>,
     newPath |-> <<>>, snap |-> <<>>]

Result(op, user, err) == [op |-> op, user |-> user, err |-> err]

---------------------------------------------------------------------------
(* The file repository. *)

RowsOf(userID) == {id \in DOMAIN files : files[id].UserID = userID}

CountByUserID(userID) == Cardinality(RowsOf(userID))

RECURSIVE SumSizes(_, _)
SumSizes(table, ids) ==
    IF ids = {} THEN 0
    ELSE LET id == CHOOSE i \in ids : TRUE
         IN  table[id].FileSize + SumSizes(table, ids \ {id})

GetTotalSizeByUserID(userID) == SumSizes(files, RowsOf(userID))

\* r.db.Create: insert under the next value of the primary-key sequence.
Create(file) == files @@ (nextID :> [file EXCEPT !.ID = nextID])

\* r.db.Delete(file): DELETE ... WHERE id = file.ID.
Delete(file) == [id \in DOMAIN files \ {file.ID} |-> files[id]]

---------------------------------------------------------------------------
(* The quota ledger. *)

\* Mutant of CheckUploadAllowed: the file-count limit compared with > .
CheckUploadAllowedOffByOne(userID, fileSize) ==
    LET user == users[userID]
    IN  IF fileSize > user.MaxFileSize
        THEN "file size exceeds your limit"
        ELSE IF CountByUserID(userID) > user.MaxFiles
        THEN "maximum number of files reached"
        ELSE IF GetTotalSizeByUserID(userID) + fileSize > user.MaxStorage
        THEN "storage limit exceeded"
        ELSE ""

CheckUploadAllowed(userID, fileSize) ==
    LET user == users[userID]
    IN  IF fileSize > user.MaxFileSize
        THEN "file size exceeds your limit"
        ELSE IF CountByUserID(userID) >= user.MaxFiles
        THEN "maximum number of files reached"
        ELSE IF GetTotalSizeByUserID(userID) + fileSize > user.MaxStorage
        THEN "storage limit exceeded"
        ELSE ""

QuotaErrors ==
    {"file size exceeds your limit", "maximum number of files reached",
     "storage limit exceeded"}

---------------------------------------------------------------------------
(* Content validation of the general upload path. *)

dangerousExtensions ==
    { <<".","e","x","e">>, <<".","b","a","t">>, <<".","c","m","d">>,
      <<".","c","o","m">>, <<".","m","s","i">>, <<".","s","c","r">>,
      <<".","p","i","f">>, <<".","v","b","s">>, <<".","v","b","e">>,
      <<".","j","s">>, <<".","j","s","e">>, <<".","w","s">>,
      <<".","w","s","f">>, <<".","w","s","c">>, <<".","w","s","h">>,
      <<".","p","s","1">>, <<".","p","s","2">>, <<".","p","s","c","1">>,
      <<".","p","s","c","2">>, <<".","m","s","c">>, <<".","m","s","p">>,
      <<".","l","n","k">>, <<".","i","n","f">>, <<".","r","e","g">>,
      <<".","d","l","l">>, <<".","c","p","l">>, <<".","h","t","a">>,
      <<".","j","a","r">>, <<".","s","h">>, <<".","b","a","s","h">>,
      <<".","z","s","h">>, <<".","p","h","p">>, <<".","a","s","p">>,
      <<".","a","s","p","x">>, <<".","j","s","p">>, <<".","p","y">>,
      <<".","p","l">>, <<".","r","b">>, <<".","c","g","i">>,
      <<".","h","t","a","c","c","e","s","s">> }

dangerousMimeTypes ==
    {"application/x-msdownload", "application/x-executable",
     "application/x-msdos-program", "application/x-sh",
     "application/x-shellscript", "application/x-php",
     "application/x-httpd-php", "text/x-php", "application/x-perl",
     "application/x-python", "application/x-ruby", "application/java-archive",
     "application/x-java-class", "application/javascript", "text/javascript",
     "application/x-javascript", "text/vbscript", "application/x-powershell"}

\* strings.Contains(detectedType, "html") || strings.Contains(detectedType, "svg")
\* over the types the model's uploads are sniffed as.
IsMarkupType(detectedType) ==
    detectedType \in {"text/html; charset=utf-8", "image/svg+xml"}

\* Mutant of ValidateFile: the extension denylist consulted before the quota.
ValidateFileExtensionFirst(userID, fileHeader, openOK) ==
    LET quota == CheckUploadAllowed(userID, fileHeader.Size)
        ext   == ToLower(Ext(fileHeader.Filename))
    IN  IF ext \in dangerousExtensions
        THEN "file type not allowed for security reasons"
        ELSE IF quota # "" THEN quota
        ELSE IF \/ Contains(fileHeader.Filename, <<".", ".">>)
                \/ Contains(fileHeader.Filename, <<"/">>)
                \/ Contains(fileHeader.Filename, <<"\\">>)
        THEN "invalid filename"
        ELSE IF ~openOK THEN "failed to open file for validation"
        ELSE IF fileHeader.Body.Detected \in dangerousMimeTypes
        THEN "file content type not allowed for security reasons"
        ELSE IF IsMarkupType(fileHeader.Body.Detected) /\ fileHeader.Body.Scripted
        THEN "file contains potentially dangerous content"
        ELSE ""

\* ValidateFile; openOK is whether opening and reading the part succeeds.
ValidateFile(userID, fileHeader, openOK) ==
    LET quota == CheckUploadAllowed(userID, fileHeader.Size)
        ext   == ToLower(Ext(fileHeader.Filename))
    IN  IF quota # "" THEN quota
        ELSE IF ext \in dangerousExtensions
        THEN "file type not allowed for security reasons"
        ELSE IF \/ Contains(fileHeader.Filename, <<".", ".">>)
                \/ Contains(fileHeader.Filename, <<"/">>)
                \/ Contains(fileHeader.Filename, <<"\\">>)
        THEN "invalid filename"
        ELSE IF ~openOK THEN "failed to open file for validation"
        ELSE IF fileHeader.Body.Detected \in dangerousMimeTypes
        THEN "file content type not allowed for security reasons"
        ELSE IF IsMarkupType(fileHeader.Body.Detected) /\ fileHeader.Body.Scripted
        THEN "file contains potentially dangerous content"
        ELSE ""

---------------------------------------------------------------------------
(* Handlers.  A handler runs in a request slot p; each action below is one *)
(* step of it that reads or writes the database or the disk, so that the   *)
(* steps of two requests interleave as the server's goroutines do.  A step *)
(* that may fail takes its outcome as a parameter.                         *)

Done(p, op, userID, err) ==
    /\ pc' = [pc EXCEPT ![p] = "idle"]
    /\ req' = [req EXCEPT ![p] = Idle]
    /\ res' = Result(op, userID, err)

Goto(p, label, locals) ==
    /\ pc' = [pc EXCEPT ![p] = label]
    /\ req' = [req EXCEPT ![p] = locals]
    /\ UNCHANGED res

RemoveAll(paths) == [f \in DOMAIN disk \ paths |-> disk[f]]

\* os.WriteFile and the create-and-copy of an upload: the path holds the bytes.
WriteFile(path, bytes) ==
    IF path \in DOMAIN disk THEN [disk EXCEPT ![path] = bytes]
    ELSE disk @@ (path :> bytes)

\* Physical files an upload may still create are counted against MaxUploads.
UploadsBeforeWrite == Cardinality({q \in Procs : pc[q] = "upload_write"})

\* UploadFileWithFolder, first step: ValidateFile and sanitizeFolderPath.
UploadValidate(p, userID, fileHeader, folderPath, openOK) ==
    /\ pc[p] = "idle"
    /\ (nextUUID - 1) + UploadsBeforeWrite < MaxUploads
    /\ LET err == ValidateFile(userID, fileHeader, openOK)
       IN  IF err # ""
           THEN Done(p, "upload", userID, err)
           ELSE Goto(p, "upload_write",
                     [Idle EXCEPT !.op = "upload", !.user = userID,
                                  !.header = fileHeader,
                                  !.folderPath = sanitizeFolderPath(folderPath)])
    /\ UNCHANGED <<users, files, disk, nextID, nextUUID>>

\* The Content-Type to store: the declared one unless it is empty or
\* application/octet-stream, and then the type sniffed from the written file.
StoredMimeType(fileHeader) ==
    IF fileHeader.ContentType \in {"", "application/octet-stream"}
    THEN fileHeader.Body.Detected
    ELSE fileHeader.ContentType

\* UploadFileWithFolder, second step: MkdirAll, open the part, create the
\* destination under a fresh name and copy the bytes into it.  io is the
\* first call that fails: "mkdir", "open", "create", "copy" (io.Copy fails
\* and os.Remove cleans up), "copy_leftover" (os.Remove fails as well and
\* the truncated file stays), or "ok".
UploadWriteError(io) ==
    CASE io = "mkdir"  -> "failed to create upload directory"
      [] io = "open"   -> "failed to open uploaded file"
      [] io = "create" -> "failed to create file"
      [] OTHER         -> "failed to save file"

UploadWrite(p, io) ==
    /\ pc[p] = "upload_write"
    /\ IF io = "ok"
       THEN /\ disk' = WriteFile(nextUUID, req[p].header.Body)
            /\ nextUUID' = nextUUID + 1
            /\ Goto(p, "upload_create",
                    [req[p] EXCEPT !.filePath = nextUUID,
                                   !.mimeType = StoredMimeType(req[p].header)])
       ELSE /\ disk' = IF io = "copy_leftover"
                       THEN WriteFile(nextUUID, Bytes(0, "", FALSE))
                       ELSE disk
            /\ nextUUID' = IF io = "copy_leftover" THEN nextUUID + 1 ELSE nextUUID
            /\ Done(p, "upload", req[p].user, UploadWriteError(io))
    /\ UNCHANGED <<users, files, nextID>>

\* The row UploadFileWithFolder builds from the header and its locals.
UploadedFile(r) ==
    File(0, r.user, r.filePath, sanitizeFilename(r.header.Filename), r.filePath,
         r.folderPath, r.header.Size, r.mimeType)

\* UploadFileWithFolder, last step: fileRepo.Create, and os.Remove of the
\* written file when it fails (rmOK: whether that os.Remove succeeds).
UploadCreate(p, dbOK, rmOK) ==
    /\ pc[p] = "upload_create"
    /\ IF dbOK
       THEN /\ files' = Create(UploadedFile(req[p]))
            /\ nextID' = nextID + 1
            /\ Done(p, "upload", req[p].user, "")
            /\ UNCHANGED disk
       ELSE /\ disk' = IF rmOK THEN RemoveAll({req[p].filePath}) ELSE disk
            /\ Done(p, "upload", req[p].user, "failed to save file metadata")
            /\ UNCHANGED <<files, nextID>>
    /\ UNCHANGED <<users, nextUUID>>

\* DeleteFile, first step: FindByID and the ownership check.
DeleteFileFind(p, fileID, userID) ==
    /\ pc[p] = "idle"
    /\ IF fileID \notin DOMAIN files
       THEN Done(p, "delete", userID, "record not found")
       ELSE IF files[fileID].UserID # userID
       THEN Done(p, "delete", userID, "unauthorized to delete this file")
       ELSE Goto(p, "delete_remove",
                 [Idle EXCEPT !.op = "delete", !.user = userID,
                              !.fileID = fileID, !.file = files[fileID]])
    /\ UNCHANGED <<users, files, disk, nextID, nextUUID>>

\* Mutant of DeleteFileRemove: a file already missing is an error as well.
DeleteFileRemoveStrict(p, rmOK) ==
    /\ pc[p] = "delete_remove"
    /\ IF rmOK /\ req[p].file.FilePath \in DOMAIN disk
       THEN /\ disk' = RemoveAll({req[p].file.FilePath})
            /\ Goto(p, "delete_row", req[p])
       ELSE /\ Done(p, "delete", req[p].user, "failed to delete physical file")
            /\ UNCHANGED disk
    /\ UNCHANGED <<users, files, nextID, nextUUID>>

\* DeleteFile, second step: os.Remove; a file already missing is not an
\* error, any other failure (rmOK false) is.
DeleteFileRemove(p, rmOK) ==
    /\ pc[p] = "delete_remove"
    /\ IF rmOK \/ req[p].file.FilePath \notin DOMAIN disk
       THEN /\ disk' = RemoveAll({req[p].file.FilePath})
            /\ Goto(p, "delete_row", req[p])
       ELSE /\ Done(p, "delete", req[p].user, "failed to delete physical file")
            /\ UNCHANGED disk
    /\ UNCHANGED <<users, files, nextID, nextUUID>>

\* DeleteFile, last step: fileRepo.Delete.
DeleteFileRow(p, dbOK) ==
    /\ pc[p] = "delete_row"
    /\ IF dbOK
       THEN /\ files' = Delete(req[p].file)
            /\ Done(p, "delete", req[p].user, "")
       ELSE /\ Done(p, "delete", req[p].user, "failed to delete file metadata")
            /\ UNCHANGED files
    /\ UNCHANGED <<users, disk, nextID, nextUUID>>

\* fileRepo.Update is gorm's Save: UPDATE of every column by primary key,
\* and an insert of the row when that UPDATE matches no row.
Update(file) ==
    IF file.ID \in DOMAIN files
    THEN [files EXCEPT ![file.ID] = file]
    ELSE files @@ (file.ID :> file)

\* RenameFile, first step: FindByID, the ownership check, sanitizeFilename.
RenameFileFind(p, fileID, userID, newName) ==
    /\ pc[p] = "idle"
    /\ IF fileID \notin DOMAIN files
       THEN Done(p, "rename", userID, "record not found")
       ELSE IF files[fileID].UserID # userID
       THEN Done(p, "rename", userID, "unauthorized to rename this file")
       ELSE IF sanitizeFilename(newName) = <<>>
       THEN Done(p, "rename", userID, "invalid filename")
       ELSE Goto(p, "rename_save",
                 [Idle EXCEPT !.op = "rename", !.user = userID, !.fileID = fileID,
                              !.file = [files[fileID] EXCEPT
                                          !.OriginalName = sanitizeFilename(newName)]])
    /\ UNCHANGED <<users, files, disk, nextID, nextUUID>>

\* RenameFile, last step: fileRepo.Update of the row read in the first.
RenameFileSave(p, dbOK) ==
    /\ pc[p] = "rename_save"
    /\ IF dbOK
       THEN /\ files' = Update(req[p].file)
            /\ Done(p, "rename", req[p].user, "")
       ELSE /\ Done(p, "rename", req[p].user, "failed to rename file")
            /\ UNCHANGED files
    /\ UNCHANGED <<users, disk, nextID, nextUUID>>

\* MoveFile, first step: FindByID, the ownership check, sanitizeFolderPath.
MoveFileFind(p, fileID, userID, newFolderPath) ==
    /\ pc[p] = "idle"
    /\ IF fileID \notin DOMAIN files
       THEN Done(p, "move", userID, "record not found")
       ELSE IF files[fileID].UserID # userID
       THEN Done(p, "move", userID, "unauthorized to move this file")
       ELSE Goto(p, "move_save",
                 [Idle EXCEPT !.op = "move", !.user = userID, !.fileID = fileID,
                              !.file = [files[fileID] EXCEPT
                                          !.FolderPath = sanitizeFolderPath(newFolderPath)]])
    /\ UNCHANGED <<users, files, disk, nextID, nextUUID>>

\* MoveFile, last step: fileRepo.Update.
MoveFileSave(p, dbOK) ==
    /\ pc[p] = "move_save"
    /\ IF dbOK
       THEN /\ files' = Update(req[p].file)
            /\ Done(p, "move", req[p].user, "")
       ELSE /\ Done(p, "move", req[p].user, "failed to move file")
            /\ UNCHANGED files
    /\ UNCHANGED <<users, disk, nextID, nextUUID>>

editableTextTypes ==
    {"text/plain", "text/html", "text/css", "text/csv", "text/xml",
     "application/json", "application/xml", "text/markdown",
     "application/x-yaml", "text/yaml"}

editableExts ==
    { <<".","t","x","t">>, <<".","m","d">>, <<".","j","s","o","n">>,
      <<".","x","m","l">>, <<".","h","t","m","l">>, <<".","c","s","s">>,
      <<".","c","s","v">>, <<".","y","a","m","l">>, <<".","y","m","l">>,
      <<".","i","n","i">>, <<".","c","o","n","f">>, <<".","l","o","g">> }

IsEditable(file) ==
    \/ file.MimeType \in editableTextTypes
    \/ ToLower(Ext(file.OriginalName)) \in editableExts

\* GetFileContent: it changes nothing, so its reads are taken in one step.
\* readOK is whether os.ReadFile of an existing file succeeds.
GetFileContent(p, fileID, userID, readOK) ==
    /\ pc[p] = "idle"
    /\ IF fileID \notin DOMAIN files
       THEN Done(p, "read", userID, "record not found")
       ELSE IF files[fileID].UserID # userID
       THEN Done(p, "read", userID, "unauthorized to read this file")
       ELSE IF ~IsEditable(files[fileID])
       THEN Done(p, "read", userID, "file is not editable")
       ELSE IF files[fileID].FileSize > 1024 * 1024
       THEN Done(p, "read", userID, "file too large to edit")
       ELSE IF ~readOK \/ files[fileID].FilePath \notin DOMAIN disk
       THEN Done(p, "read", userID, "failed to read file")
       ELSE Done(p, "read", userID, "")
    /\ UNCHANGED <<users, files, disk, nextID, nextUUID>>

\* UpdateFileContent, first step: FindByID, ownership, IsEditable.
UpdateFileContentFind(p, fileID, userID, content) ==
    /\ pc[p] = "idle"
    /\ IF fileID \notin DOMAIN files
       THEN Done(p, "edit", userID, "record not found")
       ELSE IF files[fileID].UserID # userID
       THEN Done(p, "edit", userID, "unauthorized to edit this file")
       ELSE IF ~IsEditable(files[fileID])
       THEN Done(p, "edit", userID, "file is not editable")
       ELSE Goto(p, "edit_write",
                 [Idle EXCEPT !.op = "edit", !.user = userID, !.fileID = fileID,
                              !.file = files[fileID], !.content = content])
    /\ UNCHANGED <<users, files, disk, nextID, nextUUID>>

\* UpdateFileContent, second step: os.WriteFile (create or truncate, then
\* write).  io is "ok", "fail" (the file could not be opened: nothing
\* changes) or "fail_truncated" (the write failed after the truncation).
UpdateFileContentWrite(p, io) ==
    /\ pc[p] = "edit_write"
    /\ IF io = "ok"
       THEN /\ disk' = WriteFile(req[p].file.FilePath, req[p].content)
            /\ Goto(p, "edit_save",
                    [req[p] EXCEPT !.file.FileSize = req[p].content.Len])
       ELSE /\ disk' = IF io = "fail_truncated"
                       THEN WriteFile(req[p].file.FilePath, Bytes(0, "", FALSE))
                       ELSE disk
            /\ Done(p, "edit", req[p].user, "failed to write file")
    /\ UNCHANGED <<users, files, nextID, nextUUID>>

\* UpdateFileContent, last step: fileRepo.Update with the new FileSize.
UpdateFileContentSave(p, dbOK) ==
    /\ pc[p] = "edit_save"
    /\ IF dbOK
       THEN /\ files' = Update(req[p].file)
            /\ Done(p, "edit", req[p].user, "")
       ELSE /\ Done(p, "edit", req[p].user, "failed to update file metadata")
            /\ UNCHANGED files
    /\ UNCHANGED <<users, disk, nextID, nextUUID>>

---------------------------------------------------------------------------
(* Folder tree operations. *)

\* RenameFolder's new path: oldPath with its last segment replaced.
RenamedPath(oldPath, newName) ==
    LET parts == Split(oldPath, "/")
    IN  Join([parts EXCEPT ![Len(parts)] = newName], "/")

\* UpdateFolderPath, first statement:
\*   UPDATE files SET folder_path = newPath WHERE user_id = ? AND folder_path = oldPath
UpdateExact(table, userID, oldPath, newPath) ==
    [id \in DOMAIN table |->
        IF table[id].UserID = userID /\ table[id].FolderPath = oldPath
        THEN [table[id] EXCEPT !.FolderPath = newPath]
        ELSE table[id]]

\* UpdateFolderPath, second statement:
\*   UPDATE files SET folder_path = REPLACE(folder_path, oldPrefix, newPrefix)
\*   WHERE user_id = ? AND folder_path LIKE oldPrefix || '%'
UpdateChildren(table, userID, oldPath, newPath) ==
    LET oldPrefix == oldPath \o <<"/">>
        newPrefix == newPath \o <<"/">>
    IN  [id \in DOMAIN table |->
            IF /\ table[id].UserID = userID
               /\ Like(table[id].FolderPath, oldPrefix \o <<"%">>)
            THEN [table[id] EXCEPT
                    !.FolderPath = ReplaceAll(table[id].FolderPath, oldPrefix, newPrefix)]
            ELSE table[id]]

\* RenameFolder, first step: the sanitizers, the check of their results and
\* the first statement of UpdateFolderPath.
RenameFolderExact(p, userID, oldPath, newName, dbOK) ==
    /\ pc[p] = "idle"
    /\ LET old  == sanitizeFolderPath(oldPath)
           name == sanitizeFilename(newName)
       IN  IF old = <<>> \/ name = <<>>
           THEN /\ Done(p, "rename_folder", userID, "invalid folder path or name")
                /\ UNCHANGED files
           ELSE IF ~dbOK
           THEN /\ Done(p, "rename_folder", userID, "database error")
                /\ UNCHANGED files
           ELSE /\ files' = UpdateExact(files, userID, old, RenamedPath(old, name))
                /\ Goto(p, "rename_folder_children",
                        [Idle EXCEPT !.op = "rename_folder", !.user = userID,
                                     !.oldPath = old,
                                     !.newPath = RenamedPath(old, name),
                                     !.snap = files])
    /\ UNCHANGED <<users, disk, nextID, nextUUID>>

\* RenameFolder, last step: the second statement of UpdateFolderPath.
RenameFolderChildren(p, dbOK) ==
    /\ pc[p] = "rename_folder_children"
    /\ IF dbOK
       THEN /\ files' = UpdateChildren(files, req[p].user, req[p].oldPath, req[p].newPath)
            /\ Done(p, "rename_folder", req[p].user, "")
       ELSE /\ Done(p, "rename_folder", req[p].user, "database error")
            /\ UNCHANGED files
    /\ UNCHANGED <<users, disk, nextID, nextUUID>>

\* Mutant of InFolderQuery: the WHERE clause without the user_id condition.
InFolderQueryAnyUser(row, userID, folderPath) ==
    folderPath # <<>> =>
        \/ row.FolderPath = folderPath
        \/ Like(row.FolderPath, folderPath \o <<"/", "%">>)

\* The WHERE clause DeleteByFolderPath builds.
InFolderQuery(row, userID, folderPath) ==
    /\ row.UserID = userID
    /\ folderPath # <<>> =>
          \/ row.FolderPath = folderPath
          \/ Like(row.FolderPath, folderPath \o <<"/", "%">>)

\* Mutant of DeleteFolderFind: the root check made on the raw path, before
\* it is sanitized.
DeleteFolderFindRawCheck(p, userID, folderPath, dbOK) ==
    /\ pc[p] = "idle"
    /\ LET target == sanitizeFolderPath(folderPath)
           found  == {files[id] : id \in {i \in DOMAIN files :
                                             InFolderQuery(files[i], userID, target)}}
       IN  IF folderPath = <<>>
           THEN Done(p, "delete_folder", userID, "cannot delete root folder")
           ELSE IF ~dbOK
           THEN Done(p, "delete_folder", userID, "failed to delete folder")
           ELSE IF found = {}
           THEN Done(p, "delete_folder", userID, "")
           ELSE Goto(p, "delete_folder_rows",
                     [Idle EXCEPT !.op = "delete_folder", !.user = userID,
                                  !.folderPath = target, !.found = found,
                                  !.snap = files])
    /\ UNCHANGED <<users, files, disk, nextID, nextUUID>>

\* DeleteFolder, first step: sanitizeFolderPath, the root check and the
\* SELECT of DeleteByFolderPath.
DeleteFolderFind(p, userID, folderPath, dbOK) ==
    /\ pc[p] = "idle"
    /\ LET target == sanitizeFolderPath(folderPath)
           found  == {files[id] : id \in {i \in DOMAIN files :
                                             InFolderQuery(files[i], userID, target)}}
       IN  IF target = <<>>
           THEN Done(p, "delete_folder", userID, "cannot delete root folder")
           ELSE IF ~dbOK
           THEN Done(p, "delete_folder", userID, "failed to delete folder")
           ELSE IF found = {}
           THEN Done(p, "delete_folder", userID, "")
           ELSE Goto(p, "delete_folder_rows",
                     [Idle EXCEPT !.op = "delete_folder", !.user = userID,
                                  !.folderPath = target, !.found = found,
                                  !.snap = files])
    /\ UNCHANGED <<users, files, disk, nextID, nextUUID>>

\* DeleteFolder, second step: the DELETE of DeleteByFolderPath, with the
\* same WHERE clause as the SELECT.
DeleteFolderRows(p, dbOK) ==
    /\ pc[p] = "delete_folder_rows"
    /\ IF dbOK
       THEN /\ files' = [id \in {i \in DOMAIN files :
                                   ~InFolderQuery(files[i], req[p].user, req[p].folderPath)}
                           |-> files[id]]
            /\ Goto(p, "delete_folder_bytes", req[p])
       ELSE /\ Done(p, "delete_folder", req[p].user, "failed to delete folder")
            /\ UNCHANGED files
    /\ UNCHANGED <<users, disk, nextID, nextUUID>>

\* DeleteFolder, last step: os.Remove of every selected file, errors
\* ignored; failing is the set of paths whose removal fails.
DeleteFolderBytes(p, failing) ==
    /\ pc[p] = "delete_folder_bytes"
    /\ disk' = RemoveAll({f.FilePath : f \in req[p].found} \ failing)
    /\ Done(p, "delete_folder", req[p].user, "")
    /\ UNCHANGED <<users, files, nextID, nextUUID>>

---------------------------------------------------------------------------
(* Spec: concurrent general uploads of two users against small limits.     *)
(* The limits are the defaults of model.User scaled down: user 1 may hold  *)
(* 2 files of at most 600 bytes and 1000 bytes in all, user 2 one file of  *)
(* at most 500 bytes.                                                      *)

TextPlain == "text/plain; charset=utf-8"

ATxt == <<"a", ".", "t", "x", "t">>

ASh == <<"a", ".", "s", "h">>

UploadHeaders ==
    {FileHeader(ATxt, "text/plain", Bytes(n, TextPlain, FALSE)) : n \in {1, 500, 600}}
    \cup {FileHeader(ASh, "text/plain", Bytes(600, TextPlain, FALSE))}

FolderInputs == {<<"a">>}

InitService ==
    /\ files = <<>>
    /\ disk = <<>>
    /\ nextID = 1
    /\ nextUUID = 1
    /\ pc = [p \in Procs |-> "idle"]
    /\ req = [p \in Procs |-> Idle]
    /\ res = Result("none", 0, "")

NoFn ==
    /\ fnArg = <<>>
    /\ fnRes = <<>>

SmallLimits == (1 :> User(2, 600, 1000)) @@ (2 :> User(1, 500, 1000))

Init ==
    /\ users = SmallLimits
    /\ InitService
    /\ NoFn

Next ==
    \/ \E p \in Procs, u \in Users, h \in UploadHeaders, f \in FolderInputs :
           UploadValidate(p, u, h, f, TRUE) /\ UNCHANGED <<fnArg, fnRes>>
    \/ \E p \in Procs, io \in {"copy", "ok"} :
           UploadWrite(p, io) /\ UNCHANGED <<fnArg, fnRes>>
    \/ \E p \in Procs, dbOK \in BOOLEAN :
           UploadCreate(p, dbOK, TRUE) /\ UNCHANGED <<fnArg, fnRes>>

Spec == Init /\ [][Next]_vars

---------------------------------------------------------------------------
(* SpecSan: sanitizeFolderPath applied twice to every string of at most    *)
(* MaxLen characters over slash, backslash, dot, space and a letter.       *)

InitSan ==
    /\ users = SmallLimits
    /\ InitService
    /\ fnArg \in StringsUpTo(PathAlphabet, MaxLen)
    /\ fnRes = <<>>

SanitizeAgain ==
    /\ Len(fnRes) < 2
    /\ fnRes' = Append(fnRes, sanitizeFolderPath(IF fnRes = <<>> THEN fnArg
                                                 ELSE fnRes[Len(fnRes)]))
    /\ UNCHANGED <<fnArg, users, files, disk, nextID, nextUUID, pc, req, res>>

NextSan == SanitizeAgain

SpecSan == InitSan /\ [][NextSan]_vars

---------------------------------------------------------------------------
(* SpecTree: one user, one request at a time, building a folder tree with  *)
(* uploads and MoveFile and rewriting it with RenameFolder and             *)
(* DeleteFolder; the second statement of UpdateFolderPath may fail.        *)

\* The limits of a new user: the gorm defaults of model.User.
DefaultLimits == [u \in Users |-> User(1000, 10485760, 1073741824)]

\* Raw folder paths of requests: a, ab, a/a/a, _ and ../a .
TreePaths ==
    { <<"a">>, <<"a", "b">>, <<"a", "/", "a", "/", "a">>, <<"_">>,
      <<".", ".", "/", "a">> }

\* Raw new folder names of requests: c and .. .
TreeNames == { <<"c">>, <<".", ".">> }

TreeHeader == FileHeader(ATxt, "text/plain", Bytes(1, TextPlain, FALSE))

InitTree ==
    /\ users = DefaultLimits
    /\ InitService
    /\ NoFn

NextTree ==
    \/ \E f \in TreePaths :
           /\ nextUUID <= MaxTreeFiles
           /\ UploadValidate(1, 1, TreeHeader, f, TRUE)
           /\ UNCHANGED <<fnArg, fnRes>>
    \/ UploadWrite(1, "ok") /\ UNCHANGED <<fnArg, fnRes>>
    \/ UploadCreate(1, TRUE, TRUE) /\ UNCHANGED <<fnArg, fnRes>>
    \/ \E id \in DOMAIN files, f \in TreePaths :
           MoveFileFind(1, id, 1, f) /\ UNCHANGED <<fnArg, fnRes>>
    \/ MoveFileSave(1, TRUE) /\ UNCHANGED <<fnArg, fnRes>>
    \/ \E old \in TreePaths, name \in TreeNames :
           RenameFolderExact(1, 1, old, name, TRUE) /\ UNCHANGED <<fnArg, fnRes>>
    \/ \E dbOK \in BOOLEAN :
           RenameFolderChildren(1, dbOK) /\ UNCHANGED <<fnArg, fnRes>>
    \/ \E t \in TreePaths :
           DeleteFolderFind(1, 1, t, TRUE) /\ UNCHANGED <<fnArg, fnRes>>
    \/ DeleteFolderRows(1, TRUE) /\ UNCHANGED <<fnArg, fnRes>>
    \/ DeleteFolderBytes(1, {}) /\ UNCHANGED <<fnArg, fnRes>>

SpecTree == InitTree /\ [][NextTree]_vars

---------------------------------------------------------------------------
(* SpecOwner: two users holding one uploaded file each, in folder a or a/b, *)
(* and requests of either user on either file or folder, one at a time.    *)

BTxt == <<"b", ".", "t", "x", "t">>

\* The row and the bytes a successful upload of TreeHeader by the user
\* into the folder leaves, as record and physical file number id.
Uploaded(id, userID, folderPath) ==
    File(id, userID, id, ATxt, id, folderPath, TreeHeader.Size, "text/plain")

OwnerFolders == { <<"a">>, <<"a", "/", "b">> }

InitOwner ==
    /\ users = DefaultLimits
    /\ \E f1 \in OwnerFolders, f2 \in OwnerFolders :
           files = (1 :> Uploaded(1, 1, f1)) @@ (2 :> Uploaded(2, 2, f2))
    /\ disk = (1 :> TreeHeader.Body) @@ (2 :> TreeHeader.Body)
    /\ nextID = 3
    /\ nextUUID = 3
    /\ pc = [p \in Procs |-> "idle"]
    /\ req = [p \in Procs |-> Idle]
    /\ res = Result("none", 0, "")
    /\ NoFn

EditContents == {Bytes(2, TextPlain, FALSE)}

NextOwner ==
    \/ \E id \in {1, 2}, u \in Users :
           DeleteFileFind(1, id, u) /\ UNCHANGED <<fnArg, fnRes>>
    \/ \E rmOK \in BOOLEAN :
           DeleteFileRemove(1, rmOK) /\ UNCHANGED <<fnArg, fnRes>>
    \/ DeleteFileRow(1, TRUE) /\ UNCHANGED <<fnArg, fnRes>>
    \/ \E id \in {1, 2}, u \in Users :
           RenameFileFind(1, id, u, BTxt) /\ UNCHANGED <<fnArg, fnRes>>
    \/ RenameFileSave(1, TRUE) /\ UNCHANGED <<fnArg, fnRes>>
    \/ \E id \in {1, 2}, u \in Users :
           MoveFileFind(1, id, u, <<"c">>) /\ UNCHANGED <<fnArg, fnRes>>
    \/ MoveFileSave(1, TRUE) /\ UNCHANGED <<fnArg, fnRes>>
    \/ \E id \in {1, 2}, u \in Users :
           GetFileContent(1, id, u, TRUE) /\ UNCHANGED <<fnArg, fnRes>>
    \/ \E id \in {1, 2}, u \in Users, c \in EditContents :
           UpdateFileContentFind(1, id, u, c) /\ UNCHANGED <<fnArg, fnRes>>
    \/ UpdateFileContentWrite(1, "ok") /\ UNCHANGED <<fnArg, fnRes>>
    \/ UpdateFileContentSave(1, TRUE) /\ UNCHANGED <<fnArg, fnRes>>
    \/ \E u \in Users :
           RenameFolderExact(1, u, <<"a">>, <<"c">>, TRUE) /\ UNCHANGED <<fnArg, fnRes>>
    \/ \E dbOK \in BOOLEAN :
           RenameFolderChildren(1, dbOK) /\ UNCHANGED <<fnArg, fnRes>>
    \/ \E u \in Users :
           DeleteFolderFind(1, u, <<"a">>, TRUE) /\ UNCHANGED <<fnArg, fnRes>>
    \/ DeleteFolderRows(1, TRUE) /\ UNCHANGED <<fnArg, fnRes>>
    \/ DeleteFolderBytes(1, {}) /\ UNCHANGED <<fnArg, fnRes>>

SpecOwner == InitOwner /\ [][NextOwner]_vars

---------------------------------------------------------------------------
(* SpecEdit: one user uploading and editing text files, one request at a   *)
(* time, where every disk and database call may fail.                      *)

InitEdit ==
    /\ users = DefaultLimits
    /\ InitService
    /\ NoFn

NextEdit ==
    \/ \E ok \in BOOLEAN :
           /\ nextUUID <= MaxTreeFiles
           /\ UploadValidate(1, 1, TreeHeader, <<>>, ok)
           /\ UNCHANGED <<fnArg, fnRes>>
    \/ \E io \in {"mkdir", "open", "create", "copy", "copy_leftover", "ok"} :
           UploadWrite(1, io) /\ UNCHANGED <<fnArg, fnRes>>
    \/ \E dbOK \in BOOLEAN, rmOK \in BOOLEAN :
           UploadCreate(1, dbOK, rmOK) /\ UNCHANGED <<fnArg, fnRes>>
    \/ \E id \in DOMAIN files, c \in EditContents :
           UpdateFileContentFind(1, id, 1, c) /\ UNCHANGED <<fnArg, fnRes>>
    \/ \E io \in {"ok", "fail", "fail_truncated"} :
           UpdateFileContentWrite(1, io) /\ UNCHANGED <<fnArg, fnRes>>
    \/ \E dbOK \in BOOLEAN :
           UpdateFileContentSave(1, dbOK) /\ UNCHANGED <<fnArg, fnRes>>

SpecEdit == InitEdit /\ [][NextEdit]_vars

---------------------------------------------------------------------------
(* SpecContent: one user uploading text files of exactly 1 MiB and of one  *)
(* byte more, then reading and editing them, one request at a time.        *)

\* The limit GetFileContent compares file_size with.
EditLimit == 1024 * 1024

ContentHeaders ==
    {FileHeader(ATxt, "text/plain", Bytes(n, TextPlain, FALSE)) :
        n \in {EditLimit, EditLimit + 1}}

InitContent ==
    /\ users = DefaultLimits
    /\ InitService
    /\ NoFn

NextContent ==
    \/ \E h \in ContentHeaders :
           /\ nextUUID <= MaxTreeFiles
           /\ UploadValidate(1, 1, h, <<>>, TRUE)
           /\ UNCHANGED <<fnArg, fnRes>>
    \/ UploadWrite(1, "ok") /\ UNCHANGED <<fnArg, fnRes>>
    \/ UploadCreate(1, TRUE, TRUE) /\ UNCHANGED <<fnArg, fnRes>>
    \/ \E id \in DOMAIN files, readOK \in BOOLEAN :
           GetFileContent(1, id, 1, readOK) /\ UNCHANGED <<fnArg, fnRes>>
    \/ \E id \in DOMAIN files, c \in EditContents :
           UpdateFileContentFind(1, id, 1, c) /\ UNCHANGED <<fnArg, fnRes>>
    \/ UpdateFileContentWrite(1, "ok") /\ UNCHANGED <<fnArg, fnRes>>
    \/ UpdateFileContentSave(1, TRUE) /\ UNCHANGED <<fnArg, fnRes>>

SpecContent == InitContent /\ [][NextContent]_vars

---------------------------------------------------------------------------
(* SpecRoot: one user uploading into the root and into folder a, and       *)
(* DeleteFolder called on folder a and with every string of at most        *)
(* MaxRootLen characters over slash, backslash, dot, space and a letter    *)
(* that denotes the root, one request at a time.                           *)

RootFolders == { <<>>, <<"a">> }

\* The raw paths that denote the root: those sanitizeFolderPath empties.
\* A letter survives sanitizeFolderPath, so they are strings without one.
RootInputs ==
    {t \in StringsUpTo(PathAlphabet \ {"a"}, MaxRootLen) :
        sanitizeFolderPath(t) = <<>>}

\* Raw paths of DeleteFolder requests: every root input, and a and a/ .
DeleteInputs == RootInputs \cup { <<"a">>, <<"a", "/">> }

InitRoot ==
    /\ users = DefaultLimits
    /\ InitService
    /\ NoFn

NextRoot ==
    \/ \E f \in RootFolders :
           /\ nextUUID <= MaxTreeFiles
           /\ UploadValidate(1, 1, TreeHeader, f, TRUE)
           /\ UNCHANGED <<fnArg, fnRes>>
    \/ UploadWrite(1, "ok") /\ UNCHANGED <<fnArg, fnRes>>
    \/ UploadCreate(1, TRUE, TRUE) /\ UNCHANGED <<fnArg, fnRes>>
    \/ \E t \in DeleteInputs, dbOK \in BOOLEAN :
           DeleteFolderFind(1, 1, t, dbOK) /\ UNCHANGED <<fnArg, fnRes>>
    \/ \E dbOK \in BOOLEAN :
           DeleteFolderRows(1, dbOK) /\ UNCHANGED <<fnArg, fnRes>>
    \/ DeleteFolderBytes(1, {}) /\ UNCHANGED <<fnArg, fnRes>>

SpecRoot == InitRoot /\ [][NextRoot]_vars

---------------------------------------------------------------------------
(* SpecRace: one user holding one uploaded file in folder a, and two       *)
(* concurrent requests of that user renaming, moving and editing the file  *)
(* and renaming its folder.                                                *)

InitRace ==
    /\ users = DefaultLimits
    /\ files = (1 :> Uploaded(1, 1, <<"a">>))
    /\ disk = (1 :> TreeHeader.Body)
    /\ nextID = 2
    /\ nextUUID = 2
    /\ pc = [p \in Procs |-> "idle"]
    /\ req = [p \in Procs |-> Idle]
    /\ res = Result("none", 0, "")
    /\ NoFn

NextRace ==
    \/ \E p \in Procs :
           RenameFileFind(p, 1, 1, BTxt) /\ UNCHANGED <<fnArg, fnRes>>
    \/ \E p \in Procs :
           RenameFileSave(p, TRUE) /\ UNCHANGED <<fnArg, fnRes>>
    \/ \E p \in Procs :
           MoveFileFind(p, 1, 1, <<"c">>) /\ UNCHANGED <<fnArg, fnRes>>
    \/ \E p \in Procs :
           MoveFileSave(p, TRUE) /\ UNCHANGED <<fnArg, fnRes>>
    \/ \E p \in Procs, old \in { <<"a">>, <<"c">> } :
           RenameFolderExact(p, 1, old, <<"d">>, TRUE) /\ UNCHANGED <<fnArg, fnRes>>
    \/ \E p \in Procs :
           RenameFolderChildren(p, TRUE) /\ UNCHANGED <<fnArg, fnRes>>
    \/ \E p \in Procs, c \in EditContents :
           UpdateFileContentFind(p, 1, 1, c) /\ UNCHANGED <<fnArg, fnRes>>
    \/ \E p \in Procs :
           UpdateFileContentWrite(p, "ok") /\ UNCHANGED <<fnArg, fnRes>>
    \/ \E p \in Procs :
           UpdateFileContentSave(p, TRUE) /\ UNCHANGED <<fnArg, fnRes>>

SpecRace == InitRace /\ [][NextRace]_vars

---------------------------------------------------------------------------
(* SpecValidate: one user uploading files of several kinds of content      *)
(* under several names and declared content types, and renaming them, one  *)
(* request at a time.                                                      *)

\* The content of an uploaded part: the media type its bytes are of, their
\* length, and the offset at which the first script marker ("<script",
\* "javascript:", "onerror=" or "onload=", in any letter case) ends, 0 when
\* the bytes hold none.
Content(type, len, markerEnd) ==
    [Type |-> type, Len |-> len, MarkerEnd |-> markerEnd]

\* net/http's DetectContentType on the first bytes of such content.  Its
\* signature table knows HTML tags, "<?xml", images, archives and a few
\* more binary formats; any other text, a shell, PHP or JavaScript source
\* or a bare <svg> element included, is text/plain, and unknown binary data
\* is application/octet-stream.
DetectContentType(type) ==
    CASE type = "text/html"                -> "text/html; charset=utf-8"
      [] type = "image/png"                -> "image/png"
      [] type = "application/x-executable" -> "application/octet-stream"
      [] OTHER                             -> "text/plain; charset=utf-8"

\* The number of bytes ValidateFile reads for its checks.
SniffLen == 512

\* What ValidateFile and the upload see of the content: its length, the
\* type sniffed from its first SniffLen bytes and whether those bytes hold
\* a script marker.
Sniff(content) ==
    Bytes(content.Len, DetectContentType(content.Type),
          content.MarkerEnd # 0 /\ content.MarkerEnd <= SniffLen)

ValidateContents ==
    { Content("text/plain", 1, 0),
      Content("application/x-sh", 1, 0),
      Content("text/html", 600, 0),
      Content("text/html", 600, 20),
      Content("text/html", 600, 600) }

\* Declared filenames: a.txt and a single tab.
ValidateNames == { ATxt, <<"\t">> }

\* Declared Content-Type headers of the part.
DeclaredTypes == { "", "image/png" }

InitValidate ==
    /\ users = DefaultLimits
    /\ InitService
    /\ NoFn

NextValidate ==
    \/ \E n \in ValidateNames, d \in DeclaredTypes, c \in ValidateContents :
           /\ nextUUID <= MaxTreeFiles
           /\ UploadValidate(1, 1, FileHeader(n, d, Sniff(c)), <<>>, TRUE)
           /\ UNCHANGED <<fnArg, fnRes>>
    \/ UploadWrite(1, "ok") /\ UNCHANGED <<fnArg, fnRes>>
    \/ UploadCreate(1, TRUE, TRUE) /\ UNCHANGED <<fnArg, fnRes>>
    \/ \E id \in DOMAIN files, n \in ValidateNames :
           RenameFileFind(1, id, 1, n) /\ UNCHANGED <<fnArg, fnRes>>
    \/ RenameFileSave(1, TRUE) /\ UNCHANGED <<fnArg, fnRes>>

SpecValidate == InitValidate /\ [][NextValidate]_vars

---------------------------------------------------------------------------
(* SpecURL: the URL the upload returns and the URL generateFileURL          *)
(* recomputes from the stored file_path, for every upload root of at most  *)
(* MaxLen characters over dot, slash and a letter, and a public base with  *)
(* and without a trailing slash.                                           *)

\* filepath.Separator of the build the service is deployed as (Linux).
Separator == "/"

\* The path elements filepath.Clean keeps, in order: empty and "." elements
\* are dropped, ".." removes the element before it (or stays, in a relative
\* path with nothing before it).
RECURSIVE CleanElements(_, _, _)
CleanElements(elems, kept, rooted) ==
    IF elems = <<>> THEN kept
    ELSE LET e == Head(elems)
         IN  IF e = <<>> \/ e = <<".">>
             THEN CleanElements(Tail(elems), kept, rooted)
             ELSE IF e = <<".", ".">>
             THEN IF kept # <<>> /\ kept[Len(kept)] # <<".", ".">>
                  THEN CleanElements(Tail(elems), SubSeq(kept, 1, Len(kept) - 1), rooted)
                  ELSE IF rooted
                  THEN CleanElements(Tail(elems), kept, rooted)
                  ELSE CleanElements(Tail(elems), Append(kept, e), rooted)
             ELSE CleanElements(Tail(elems), Append(kept, e), rooted)

\* filepath.Clean.
Clean(path) ==
    IF path = <<>> THEN <<".">>
    ELSE LET rooted == Head(path) = Separator
             kept   == CleanElements(Split(path, Separator), <<>>, rooted)
         IN  IF rooted THEN <<Separator>> \o Join(kept, Separator)
             ELSE IF kept = <<>> THEN <<".">>
             ELSE Join(kept, Separator)

\* filepath.Join: the non-empty elements joined by the separator, cleaned.
JoinPath(elems) ==
    LET nonEmpty == SelectSeq(elems, LAMBDA e : e # <<>>)
    IN  IF nonEmpty = <<>> THEN <<>> ELSE Clean(Join(nonEmpty, Separator))

TrimPrefix(s, prefix) ==
    IF HasPrefix(s, prefix) THEN SubSeq(s, Len(prefix) + 1, Len(s)) ELSE s

TrimSuffix(s, suffix) ==
    IF Len(s) >= Len(suffix) /\ SubSeq(s, Len(s) - Len(suffix) + 1, Len(s)) = suffix
    THEN SubSeq(s, 1, Len(s) - Len(suffix))
    ELSE s

\* filepath.ToSlash.
ToSlash(path) == ReplaceAll(path, <<Separator>>, <<"/">>)

\* The user folder, the date folder and the unique filename of the upload
\* the URLs are computed for: 1, d (for the date) and f.t .
UserFolder == <<"1">>

DateFolder == <<"d">>

UniqueFilename == <<"f", ".", "t">>

\* The file_path UploadFileWithFolder stores.
UploadFilePath(uploadPath) ==
    JoinPath(<<JoinPath(<<uploadPath, UserFolder, DateFolder>>), UniqueFilename>>)

\* The URL UploadFileWithFolder returns.
UploadURL(storageURL) ==
    TrimSuffix(storageURL, <<"/">>) \o <<"/">>
        \o ToSlash(JoinPath(<<UserFolder, DateFolder, UniqueFilename>>))

\* generateFileURL: the URL every later read computes from file_path.
generateFileURL(uploadPath, storageURL, filePath) ==
    LET relativePath == TrimPrefix(filePath, uploadPath \o <<Separator>>)
    IN  TrimSuffix(storageURL, <<"/">>) \o <<"/">> \o ToSlash(relativePath)

\* Public bases: h (for a URL such as http://localhost:8080) and h/ .
StorageURLs == { <<"h">>, <<"h", "/">> }

UploadPathAlphabet == {".", "/", "u"}

InitURL ==
    /\ users = DefaultLimits
    /\ InitService
    /\ fnArg \in [uploadPath : StringsUpTo(UploadPathAlphabet, MaxLen),
                  storageURL : StorageURLs]
    /\ fnRes = <<>>

\* An upload followed by two reads of the file.
GenerateURLs ==
    /\ fnRes = <<>>
    /\ LET filePath == UploadFilePath(fnArg.uploadPath)
           read     == generateFileURL(fnArg.uploadPath, fnArg.storageURL, filePath)
       IN  fnRes' = <<UploadURL(fnArg.storageURL), read, read>>
    /\ UNCHANGED <<fnArg, users, files, disk, nextID, nextUUID, pc, req, res>>

NextURL == GenerateURLs

SpecURL == InitURL /\ [][NextURL]_vars

---------------------------------------------------------------------------
(* SpecSettings: settings updates of two users whose limits start at the   *)
(* defaults, with zero, negative and positive values supplied.             *)

\* UserSettings: the limits a settings update supplies.
UserSettings(maxFiles, maxFileSize, maxStorage) ==
    [MaxFiles |-> maxFiles, MaxFileSize |-> maxFileSize, MaxStorage |-> maxStorage]

\* Mutant of ApplySettings: a supplied zero is applied as well.
ApplySettingsNonNegative(user, settings) ==
    [MaxFiles    |-> IF settings.MaxFiles >= 0
                     THEN settings.MaxFiles ELSE user.MaxFiles,
     MaxFileSize |-> IF settings.MaxFileSize >= 0
                     THEN settings.MaxFileSize ELSE user.MaxFileSize,
     MaxStorage  |-> IF settings.MaxStorage >= 0
                     THEN settings.MaxStorage ELSE user.MaxStorage]

\* The limits UpdateUserSettings assigns to the user row it read.
ApplySettings(user, settings) ==
    [MaxFiles    |-> IF settings.MaxFiles > 0
                     THEN settings.MaxFiles ELSE user.MaxFiles,
     MaxFileSize |-> IF settings.MaxFileSize > 0
                     THEN settings.MaxFileSize ELSE user.MaxFileSize,
     MaxStorage  |-> IF settings.MaxStorage > 0
                     THEN settings.MaxStorage ELSE user.MaxStorage]

\* UpdateUserSettings: FindByID, the three assignments and userRepo.Update,
\* taken in one step; dbOK is whether the update of the row succeeds.
UpdateUserSettings(p, userID, settings, dbOK) ==
    /\ pc[p] = "idle"
    /\ IF userID \notin DOMAIN users
       THEN /\ Done(p, "settings", userID, "record not found")
            /\ UNCHANGED users
       ELSE IF ~dbOK
       THEN /\ Done(p, "settings", userID, "database error")
            /\ UNCHANGED users
       ELSE /\ users' = [users EXCEPT ![userID] = ApplySettings(users[userID], settings)]
            /\ Done(p, "settings", userID, "")
    /\ UNCHANGED <<files, disk, nextID, nextUUID>>

\* Values supplied for a limit.
SettingValues == {-1, 0, 2}

SettingsInputs ==
    {UserSettings(a, b, c) : a \in SettingValues, b \in SettingValues,
                             c \in SettingValues}

InitSettings ==
    /\ users = DefaultLimits
    /\ InitService
    /\ NoFn

NextSettings ==
    \E p \in Procs, u \in Users \cup {3}, s \in SettingsInputs, dbOK \in BOOLEAN :
        UpdateUserSettings(p, u, s, dbOK) /\ UNCHANGED <<fnArg, fnRes>>

SpecSettings == InitSettings /\ [][NextSettings]_vars

---------------------------------------------------------------------------
(* SpecImage: the image normalizer of the image upload path applied to     *)
(* images of every detected type with sides around the size limit.         *)

\* NewImageService: the largest width and height an image is stored with.
maxWidth == 2048

maxHeight == 2048

\* The bytes of an image upload: the size of the picture they encode and
\* whether imaging.Decode can decode them.
Image(width, height, decodable) ==
    [Width |-> width, Height |-> height, Decodable |-> decodable]

\* What processImage returns: the error, the final MIME type and the size
\* of the picture in the bytes it encoded.
Processed(err, finalMimeType, width, height) ==
    [Err |-> err, MimeType |-> finalMimeType, Width |-> width, Height |-> height]

Max(a, b) == IF a >= b THEN a ELSE b

\* imaging.Fit for a picture larger than the box: the side that overflows
\* more becomes the box's side and the other is scaled by the same ratio,
\* rounded down; imaging.Resize then takes a side of 0 as "keep the aspect
\* ratio", at least 1 pixel.  (FitClamp is a mutant: each side is clamped
\* to the box on its own.)
FitClamp(width, height, boxW, boxH) ==
    <<IF width > boxW THEN boxW ELSE width,
      IF height > boxH THEN boxH ELSE height>>

Fit(width, height, boxW, boxH) ==
    IF width <= boxW /\ height <= boxH THEN <<width, height>>
    ELSE LET newW == IF width * boxH > height * boxW
                     THEN boxW ELSE (boxH * width) \div height
             newH == IF width * boxH > height * boxW
                     THEN (boxW * height) \div width ELSE boxH
         IN  <<IF newW = 0 THEN Max(1, (2 * newH * width + height) \div (2 * height))
                           ELSE newW,
               IF newH = 0 THEN Max(1, (2 * newW * height + width) \div (2 * width))
                           ELSE newH>>

\* Mutant of processImage: a GIF is encoded as a GIF.
processImageKeepGIF(image, mimeType) ==
    IF ~image.Decodable THEN Processed("failed to decode image", "", 0, 0)
    ELSE LET size == IF image.Width > maxWidth \/ image.Height > maxHeight
                     THEN Fit(image.Width, image.Height, maxWidth, maxHeight)
                     ELSE <<image.Width, image.Height>>
         IN  Processed("",
                       CASE mimeType = "image/png" -> "image/png"
                         [] mimeType = "image/gif" -> "image/gif"
                         [] OTHER                  -> "image/jpeg",
                       size[1], size[2])

\* processImage: decode, resize when a side exceeds the limit, encode as
\* PNG for a PNG and as JPEG for everything else.
processImage(image, mimeType) ==
    IF ~image.Decodable THEN Processed("failed to decode image", "", 0, 0)
    ELSE LET size == IF image.Width > maxWidth \/ image.Height > maxHeight
                     THEN Fit(image.Width, image.Height, maxWidth, maxHeight)
                     ELSE <<image.Width, image.Height>>
         IN  Processed("",
                       CASE mimeType = "image/png"                -> "image/png"
                         [] mimeType \in {"image/jpeg", "image/jpg"} -> "image/jpeg"
                         [] mimeType = "image/gif"                -> "image/jpeg"
                         [] OTHER                                 -> "image/jpeg",
                       size[1], size[2])

getExtensionForMimeType(mimeType) ==
    CASE mimeType = "image/png"                   -> ".png"
      [] mimeType \in {"image/jpeg", "image/jpg"} -> ".jpg"
      [] mimeType = "image/gif"                   -> ".gif"
      [] OTHER                                    -> ".jpg"

\* Detected types handed to processImage.
ImageTypes ==
    {"image/png", "image/jpeg", "image/jpg", "image/gif", "image/webp", ""}

\* Side lengths around the limit.
ImageSides == {1, 2048, 2049, 4096}

InitImage ==
    /\ users = DefaultLimits
    /\ InitService
    /\ fnArg \in [image : {Image(w, h, d) : w \in ImageSides, h \in ImageSides,
                                            d \in BOOLEAN},
                  mimeType : ImageTypes]
    /\ fnRes = <<>>

\* UploadImage: processImage, then the extension for the final type.
ProcessImage ==
    /\ fnRes = <<>>
    /\ LET processed == processImage(fnArg.image, fnArg.mimeType)
       IN  fnRes' = <<processed,
                      IF processed.Err = ""
                      THEN getExtensionForMimeType(processed.MimeType) ELSE "">>
    /\ UNCHANGED <<fnArg, users, files, disk, nextID, nextUUID, pc, req, res>>

NextImage == ProcessImage

SpecImage == InitImage /\ [][NextImage]_vars

---------------------------------------------------------------------------
(* SpecImageUpload: the image upload path, one request at a time, with     *)
(* uploads of every kind (images and other files, decodable or not) and    *)
(* every disk and database call allowed to fail.                           *)

\* The bytes of an image upload or of a stored image: their length, the
\* MIME type filetype.Match finds from their magic number ("" when it
\* knows none) and the picture they encode.
ImageBytes(len, kind, image) == [Len |-> len, Kind |-> kind, Image |-> image]

allowedImageTypes == {"image/jpeg", "image/jpg", "image/png", "image/gif"}

\* cfg.MaxFileSize, the size limit NewImageService is built with.
imageMaxFileSize == 10485760

\* Mutant of ValidateImage: the detected type is not compared with the
\* allowed types.
ValidateImageAnyType(fileHeader, io) ==
    IF fileHeader.Size > imageMaxFileSize
    THEN "file size exceeds maximum allowed size"
    ELSE IF io = "open" THEN "failed to open file"
    ELSE IF io = "read" THEN "failed to read file"
    ELSE ""

\* ValidateImage: the size limit, then the type of the first 512 bytes
\* against the allowed types.  io is the call that fails, "open", "read" or
\* "ok".  filetype.Match fails only on an empty buffer, and the buffer
\* always has 512 bytes.
ValidateImage(fileHeader, io) ==
    IF fileHeader.Size > imageMaxFileSize
    THEN "file size exceeds maximum allowed size"
    ELSE IF io = "open" THEN "failed to open file"
    ELSE IF io = "read" THEN "failed to read file"
    ELSE IF fileHeader.Body.Kind \notin allowedImageTypes
    THEN "file type not allowed, only images (JPEG, PNG, GIF) are accepted"
    ELSE ""

\* UploadImage, first step: ValidateImage.
UploadImageValidate(p, userID, fileHeader, io) ==
    /\ pc[p] = "idle"
    /\ nextUUID <= MaxUploads
    /\ LET err == ValidateImage(fileHeader, io)
       IN  IF err # ""
           THEN Done(p, "upload_image", userID, err)
           ELSE Goto(p, "image_write",
                     [Idle EXCEPT !.op = "upload_image", !.user = userID,
                                  !.header = fileHeader])
    /\ UNCHANGED <<users, files, disk, nextID, nextUUID>>

UploadImageWriteError(io) ==
    CASE io = "mkdir" -> "failed to create upload directory"
      [] io = "open"  -> "failed to open uploaded file"
      [] io = "read"  -> "failed to read file"
      [] OTHER        -> "failed to save file"

\* UploadImage, second step: MkdirAll, open and read the part, processImage
\* and os.WriteFile of the encoded picture under a fresh name.  io is the
\* first call that fails: "mkdir", "open", "read", "write" (os.WriteFile
\* cannot create the file), "write_leftover" (os.WriteFile creates the file
\* and fails writing it; nothing removes it), or "ok".  encodedLen is the
\* number of bytes the encoder produces.
UploadImageWrite(p, io, encodedLen) ==
    /\ pc[p] = "image_write"
    /\ LET body      == req[p].header.Body
           processed == processImage(body.Image, body.Kind)
           encoded   == ImageBytes(encodedLen, processed.MimeType,
                                   Image(processed.Width, processed.Height, TRUE))
       IN  IF io \in {"mkdir", "open", "read"}
           THEN /\ Done(p, "upload_image", req[p].user, UploadImageWriteError(io))
                /\ UNCHANGED <<disk, nextUUID>>
           ELSE IF processed.Err # ""
           THEN /\ Done(p, "upload_image", req[p].user, "failed to process image")
                /\ UNCHANGED <<disk, nextUUID>>
           ELSE IF io = "write"
           THEN /\ Done(p, "upload_image", req[p].user, UploadImageWriteError(io))
                /\ UNCHANGED <<disk, nextUUID>>
           ELSE IF io = "write_leftover"
           THEN /\ disk' = WriteFile(nextUUID,
                                     ImageBytes(0, "", Image(0, 0, FALSE)))
                /\ nextUUID' = nextUUID + 1
                /\ Done(p, "upload_image", req[p].user, UploadImageWriteError(io))
           ELSE /\ disk' = WriteFile(nextUUID, encoded)
                /\ nextUUID' = nextUUID + 1
                /\ Goto(p, "image_create",
                        [req[p] EXCEPT !.filePath = nextUUID,
                                       !.content = encoded,
                                       !.mimeType = processed.MimeType])
    /\ UNCHANGED <<users, files, nextID>>

\* The row UploadImage builds: the declared filename as it came, the length
\* of the encoded bytes and the final type; no folder.
UploadedImage(r) ==
    File(0, r.user, r.filePath, r.header.Filename, r.filePath, <<>>,
         r.content.Len, r.mimeType)

\* UploadImage, last step: fileRepo.Create, and os.Remove of the written
\* file when it fails (rmOK: whether that os.Remove succeeds).
UploadImageCreate(p, dbOK, rmOK) ==
    /\ pc[p] = "image_create"
    /\ IF dbOK
       THEN /\ files' = Create(UploadedImage(req[p]))
            /\ nextID' = nextID + 1
            /\ Done(p, "upload_image", req[p].user, "")
            /\ UNCHANGED disk
       ELSE /\ disk' = IF rmOK THEN RemoveAll({req[p].filePath}) ELSE disk
            /\ Done(p, "upload_image", req[p].user, "failed to save file metadata")
            /\ UNCHANGED <<files, nextID>>
    /\ UNCHANGED <<users, nextUUID>>

\* Types filetype.Match reports for the uploads tried: the three allowed
\* ones, one of another image format, one of a document, and none.
UploadKinds ==
    {"image/jpeg", "image/png", "image/gif", "image/webp", "application/pdf", ""}

ImageHeaders ==
    {FileHeader(<<"a">>, "image/png", ImageBytes(len, kind, Image(4096, 1, d))) :
        len \in {10, imageMaxFileSize + 1}, kind \in UploadKinds, d \in BOOLEAN}

EncodedLens == {7}

InitImageUpload ==
    /\ users = DefaultLimits
    /\ InitService
    /\ NoFn

NextImageUpload ==
    \/ \E h \in ImageHeaders, io \in {"open", "read", "ok"} :
           UploadImageValidate(1, 1, h, io) /\ UNCHANGED <<fnArg, fnRes>>
    \/ \E io \in {"mkdir", "open", "read", "write", "write_leftover", "ok"},
          n \in EncodedLens :
           UploadImageWrite(1, io, n) /\ UNCHANGED <<fnArg, fnRes>>
    \/ \E dbOK \in BOOLEAN, rmOK \in BOOLEAN :
           UploadImageCreate(1, dbOK, rmOK) /\ UNCHANGED <<fnArg, fnRes>>

SpecImageUpload == InitImageUpload /\ [][NextImageUpload]_vars

---------------------------------------------------------------------------
(* SpecDelete: one user uploading files and deleting them, one request at  *)
(* a time, where removing the bytes and deleting the record may fail.      *)

InitDelete ==
    /\ users = DefaultLimits
    /\ InitService
    /\ NoFn

NextDelete ==
    \/ /\ nextUUID <= MaxTreeFiles
       /\ UploadValidate(1, 1, TreeHeader, <<>>, TRUE)
       /\ UNCHANGED <<fnArg, fnRes>>
    \/ UploadWrite(1, "ok") /\ UNCHANGED <<fnArg, fnRes>>
    \/ UploadCreate(1, TRUE, TRUE) /\ UNCHANGED <<fnArg, fnRes>>
    \/ \E id \in 1..MaxTreeFiles :
           DeleteFileFind(1, id, 1) /\ UNCHANGED <<fnArg, fnRes>>
    \/ \E rmOK \in BOOLEAN :
           DeleteFileRemove(1, rmOK) /\ UNCHANGED <<fnArg, fnRes>>
    \/ \E dbOK \in BOOLEAN :
           DeleteFileRow(1, dbOK) /\ UNCHANGED <<fnArg, fnRes>>

SpecDelete == InitDelete /\ [][NextDelete]_vars

---------------------------------------------------------------------------
(* SpecFrame: one user renaming folders next to files stored in sibling    *)
(* folders, in folders that hold the renamed name deeper in their path and *)
(* in folders with "_" in their path, one request at a time.               *)

\* Folders files are stored in: a, a/b, a/bc, a/b/d, c/a/b/d, _ and a/_/d.
FramePaths ==
    { <<"a">>, <<"a", "/", "b">>, <<"a", "/", "b", "c">>,
      <<"a", "/", "b", "/", "d">>, <<"c", "/", "a", "/", "b", "/", "d">>,
      <<"_">>, <<"a", "/", "_", "/", "d">> }

\* Folders renamed: a, a/b and _ .
FrameRenamed == { <<"a">>, <<"a", "/", "b">>, <<"_">> }

InitFrame ==
    /\ users = DefaultLimits
    /\ \E f1 \in FramePaths, f2 \in FramePaths :
           files = (1 :> Uploaded(1, 1, f1)) @@ (2 :> Uploaded(2, 1, f2))
    /\ disk = (1 :> TreeHeader.Body) @@ (2 :> TreeHeader.Body)
    /\ nextID = 3
    /\ nextUUID = 3
    /\ pc = [p \in Procs |-> "idle"]
    /\ req = [p \in Procs |-> Idle]
    /\ res = Result("none", 0, "")
    /\ NoFn

NextFrame ==
    \/ \E old \in FrameRenamed :
           RenameFolderExact(1, 1, old, <<"e">>, TRUE) /\ UNCHANGED <<fnArg, fnRes>>
    \/ RenameFolderChildren(1, TRUE) /\ UNCHANGED <<fnArg, fnRes>>

SpecFrame == InitFrame /\ [][NextFrame]_vars

---------------------------------------------------------------------------
(* SpecEditRace: two requests at a time writing contents of different      *)
(* lengths to one stored text file.                                        *)

\* Contents of two and of three bytes.
RaceContents == {Bytes(2, TextPlain, FALSE), Bytes(3, TextPlain, FALSE)}

NextEditRace ==
    \/ \E p \in Procs, c \in RaceContents :
           UpdateFileContentFind(p, 1, 1, c) /\ UNCHANGED <<fnArg, fnRes>>
    \/ \E p \in Procs :
           UpdateFileContentWrite(p, "ok") /\ UNCHANGED <<fnArg, fnRes>>
    \/ \E p \in Procs :
           UpdateFileContentSave(p, TRUE) /\ UNCHANGED <<fnArg, fnRes>>

SpecEditRace == InitRace /\ [][NextEditRace]_vars

---------------------------------------------------------------------------
(* SpecQuotaEdit: one user with small limits uploading text files and      *)
(* rewriting their content, one request at a time.                         *)

\* New contents: two bytes, and one byte more than the user's max_file_size.
QuotaContents ==
    {Bytes(n, TextPlain, FALSE) : n \in {2, SmallLimits[1].MaxFileSize + 1}}

NextQuotaEdit ==
    \/ \E h \in UploadHeaders :
           UploadValidate(1, 1, h, <<>>, TRUE) /\ UNCHANGED <<fnArg, fnRes>>
    \/ UploadWrite(1, "ok") /\ UNCHANGED <<fnArg, fnRes>>
    \/ UploadCreate(1, TRUE, TRUE) /\ UNCHANGED <<fnArg, fnRes>>
    \/ \E id \in DOMAIN files, c \in QuotaContents :
           UpdateFileContentFind(1, id, 1, c) /\ UNCHANGED <<fnArg, fnRes>>
    \/ UpdateFileContentWrite(1, "ok") /\ UNCHANGED <<fnArg, fnRes>>
    \/ UpdateFileContentSave(1, TRUE) /\ UNCHANGED <<fnArg, fnRes>>

SpecQuotaEdit == Init /\ [][NextQuotaEdit]_vars

---------------------------------------------------------------------------
(* SpecFolderRace: two requests at a time, one deleting folder a, which    *)
(* holds one stored file, and one uploading into a or a/b.                 *)

NextFolderRace ==
    \/ \E f \in OwnerFolders :
           UploadValidate(2, 1, TreeHeader, f, TRUE) /\ UNCHANGED <<fnArg, fnRes>>
    \/ UploadWrite(2, "ok") /\ UNCHANGED <<fnArg, fnRes>>
    \/ UploadCreate(2, TRUE, TRUE) /\ UNCHANGED <<fnArg, fnRes>>
    \/ DeleteFolderFind(1, 1, <<"a">>, TRUE) /\ UNCHANGED <<fnArg, fnRes>>
    \/ DeleteFolderRows(1, TRUE) /\ UNCHANGED <<fnArg, fnRes>>
    \/ DeleteFolderBytes(1, {}) /\ UNCHANGED <<fnArg, fnRes>>

SpecFolderRace == InitRace /\ [][NextFolderRace]_vars

---------------------------------------------------------------------------
(* SpecDeleteRace: two requests at a time on one stored file, one deleting *)
(* it and one rewriting its content, renaming it or moving it.             *)

NextDeleteRace ==
    \/ DeleteFileFind(1, 1, 1) /\ UNCHANGED <<fnArg, fnRes>>
    \/ DeleteFileRemove(1, TRUE) /\ UNCHANGED <<fnArg, fnRes>>
    \/ DeleteFileRow(1, TRUE) /\ UNCHANGED <<fnArg, fnRes>>
    \/ \E c \in RaceContents :
           UpdateFileContentFind(2, 1, 1, c) /\ UNCHANGED <<fnArg, fnRes>>
    \/ UpdateFileContentWrite(2, "ok") /\ UNCHANGED <<fnArg, fnRes>>
    \/ UpdateFileContentSave(2, TRUE) /\ UNCHANGED <<fnArg, fnRes>>
    \/ RenameFileFind(2, 1, 1, BTxt) /\ UNCHANGED <<fnArg, fnRes>>
    \/ RenameFileSave(2, TRUE) /\ UNCHANGED <<fnArg, fnRes>>
    \/ MoveFileFind(2, 1, 1, <<"c">>) /\ UNCHANGED <<fnArg, fnRes>>
    \/ MoveFileSave(2, TRUE) /\ UNCHANGED <<fnArg, fnRes>>

SpecDeleteRace == InitRace /\ [][NextDeleteRace]_vars

---------------------------------------------------------------------------
(* Claims about the quota ledger (Spec). *)

\* C1: for any interleaving of concurrent uploads by one user, whose limits
\* do not change, the user's stored file count never exceeds max_files and
\* the sum of the user's stored file sizes never exceeds max_storage.
QuotaNeverExceeded ==
    \A u \in Users :
        /\ CountByUserID(u) <= users[u].MaxFiles
        /\ GetTotalSizeByUserID(u) <= users[u].MaxStorage

\* The quota conditions as the claims state them.
OverFileSize(u, size) == size > users[u].MaxFileSize

AtMaxFiles(u) == Cardinality({id \in DOMAIN files : files[id].UserID = u}) >= users[u].MaxFiles

OverStorage(u, size) == SumSizes(files, {id \in DOMAIN files : files[id].UserID = u}) + size > users[u].MaxStorage

ProbeSizes(u) ==
    {n \in {m + d : m \in {0, users[u].MaxFileSize,
                           users[u].MaxStorage - GetTotalSizeByUserID(u)},
                    d \in {-1, 0, 1}} : n >= 0}

\* C3: checkUploadAllowed rejects if and only if incomingSize > max_file_size,
\* or totalFiles >= max_files, or totalSize + incomingSize > max_storage; an
\* upload to exactly max_storage or of exactly max_file_size is allowed, and
\* with max_files = 2 and max_storage = 1000, after uploads of 500 and 500
\* bytes an upload of 1 byte is rejected for the file count.
CheckUploadAllowedIff ==
    \A u \in Users :
        /\ \A n \in ProbeSizes(u) :
              /\ (CheckUploadAllowed(u, n) # "")
                    <=> (OverFileSize(u, n) \/ AtMaxFiles(u) \/ OverStorage(u, n))
              /\ CheckUploadAllowed(u, n) \in QuotaErrors \cup {""}
        /\ (/\ users[u].MaxFiles = 2
            /\ users[u].MaxStorage = 1000
            /\ \E i, j \in DOMAIN files :
                  /\ i # j
                  /\ files[i].UserID = u /\ files[i].FileSize = 500
                  /\ files[j].UserID = u /\ files[j].FileSize = 500)
           => CheckUploadAllowed(u, 1) = "maximum number of files reached"

\* C3 witness: user 1 (max_files 2, max_storage 1000) holds two files of 500
\* bytes, which is exactly max_storage, and the next upload was rejected for
\* the file count.
ScenarioSeen ==
    /\ users[1].MaxFiles = 2 /\ users[1].MaxStorage = 1000
    /\ CountByUserID(1) = 2
    /\ \A id \in RowsOf(1) : files[id].FileSize = 500
    /\ res = Result("upload", 1, "maximum number of files reached")

---------------------------------------------------------------------------
(* Claims about the folder tree (SpecTree). *)

\* The part of path after prefix.
Suffix(path, prefix) == SubSeq(path, Len(prefix) + 1, Len(path))

\* A path strictly below folder: it begins with folder + "/".
Below(path, folder) == HasPrefix(path, folder \o <<"/">>)

\* C4: after RenameFolder(user, oldPath, newName) every file of the user
\* that was at oldPath is at newPath, and every file that was at
\* oldPath + "/" + s is at newPath + "/" + s, for every suffix s.
RenameMovesSubtree ==
    [][\A p \in Procs :
          (pc[p] = "rename_folder_children" /\ pc'[p] = "idle" /\ res'.err = "")
          => \A id \in DOMAIN req[p].snap :
                LET was == req[p].snap[id]
                IN  was.UserID = req[p].user =>
                      /\ was.FolderPath = req[p].oldPath
                            => files'[id].FolderPath = req[p].newPath
                      /\ Below(was.FolderPath, req[p].oldPath)
                            => files'[id].FolderPath =
                                 req[p].newPath
                                   \o Suffix(was.FolderPath, req[p].oldPath)]_vars

\* C5: DeleteFolder(user, target) with a non-empty target removes every
\* file of the user whose folder_path equals target or begins with
\* target + "/", and leaves every other file untouched.
DeleteFolderExactlySubtree ==
    [][\A p \in Procs :
          (pc[p] = "delete_folder_bytes" /\ pc'[p] = "idle" /\ res'.err = "")
          => \A id \in DOMAIN req[p].snap :
                LET was == req[p].snap[id]
                    inside == /\ was.UserID = req[p].user
                              /\ \/ was.FolderPath = req[p].folderPath
                                 \/ Below(was.FolderPath, req[p].folderPath)
                IN  IF inside
                    THEN id \notin DOMAIN files' /\ was.FilePath \notin DOMAIN disk'
                    ELSE /\ id \in DOMAIN files' /\ files'[id] = was
                         /\ was.FilePath \in DOMAIN disk => was.FilePath \in DOMAIN disk']_vars

\* C6: in no reachable state are some files of a renamed subtree still
\* under the old path while others of it are already under the new path.
RenameAllOrNothing ==
    \A p \in Procs :
        pc[p] = "rename_folder_children" =>
            LET subtree == {id \in DOMAIN req[p].snap \cap DOMAIN files :
                               /\ req[p].snap[id].UserID = req[p].user
                               /\ \/ req[p].snap[id].FolderPath = req[p].oldPath
                                  \/ Below(req[p].snap[id].FolderPath, req[p].oldPath)}
                moved(id) == \/ files[id].FolderPath = req[p].newPath
                             \/ Below(files[id].FolderPath, req[p].newPath)
                stays(id) == \/ files[id].FolderPath = req[p].oldPath
                             \/ Below(files[id].FolderPath, req[p].oldPath)
            IN  req[p].newPath # req[p].oldPath =>
                   ~ \E i, j \in subtree : moved(i) /\ ~stays(i) /\ stays(j) /\ ~moved(j)

\* A path with no leading slash, no trailing slash and no ".." segment.
CanonicalPath(path) ==
    /\ path # <<>> => (Head(path) # "/" /\ path[Len(path)] # "/")
    /\ \A i \in 1..Len(Split(path, "/")) : Split(path, "/")[i] # <<".", ".">>

\* C8: in every reachable state every stored folder_path has no leading
\* slash, no trailing slash and no ".." segment.
FolderPathsCanonical ==
    \A id \in DOMAIN files : CanonicalPath(files[id].FolderPath)

---------------------------------------------------------------------------
(* Claims about ownership (SpecOwner) and content edits (SpecEdit). *)

Unauthorized ==
    {"unauthorized to delete this file", "unauthorized to rename this file",
     "unauthorized to move this file", "unauthorized to read this file",
     "unauthorized to edit this file"}

\* The row of file id or its physical bytes differ after the step.
FileTouched(id) ==
    \/ id \notin DOMAIN files'
    \/ files'[id] # files[id]
    \/ /\ files[id].FilePath \in DOMAIN disk
       /\ \/ files[id].FilePath \notin DOMAIN disk'
          \/ disk'[files[id].FilePath] # disk[files[id].FilePath]

\* The user on whose behalf request slot p takes the step.
StepUser(p) == IF pc[p] = "idle" THEN req'[p].user ELSE req[p].user

\* C7: DeleteFile, RenameFile, MoveFile, GetFileContent and
\* UpdateFileContent by a requester who is not the file's owner return an
\* authorization error and leave the file's row and bytes unchanged, and no
\* step of any handler, RenameFolder and DeleteFolder included, changes or
\* deletes the row or the bytes of a file of another user.
OwnerOnly ==
    [][/\ \A p \in Procs, id \in DOMAIN files :
          \A u \in Users \ {files[id].UserID} :
             (\/ DeleteFileFind(p, id, u)
              \/ RenameFileFind(p, id, u, BTxt)
              \/ MoveFileFind(p, id, u, <<"c">>)
              \/ GetFileContent(p, id, u, TRUE)
              \/ \E c \in EditContents : UpdateFileContentFind(p, id, u, c))
             => /\ res'.err \in Unauthorized
                /\ res'.user = u
                /\ pc'[p] = "idle"
                /\ files' = files
                /\ disk' = disk
       /\ \A id \in DOMAIN files :
             FileTouched(id)
             => \E p \in Procs : pc'[p] # pc[p] /\ StepUser(p) = files[id].UserID]_vars

\* C7 witness: user 1 ran DeleteFolder on folder a, which held a file of
\* each user; user 1's file is gone, user 2's row and bytes are as uploaded.
ForeignFolderUntouched ==
    /\ res = Result("delete_folder", 1, "")
    /\ 1 \notin DOMAIN files
    /\ 1 \notin DOMAIN disk
    /\ 2 \in DOMAIN files
    /\ files[2] = Uploaded(2, 2, <<"a">>)
    /\ 2 \in DOMAIN disk
    /\ disk[2] = TreeHeader.Body

\* C10: whenever no request is running, every row's file_size equals the
\* byte length of its physical file if that file exists.
FileSizeInSync ==
    (\A p \in Procs : pc[p] = "idle")
    => \A id \in DOMAIN files :
          files[id].FilePath \in DOMAIN disk
          => files[id].FileSize = disk[files[id].FilePath].Len

---------------------------------------------------------------------------
(* Claims about the sanitizers (SpecSan). *)

\* C9: sanitizeFolderPath is idempotent: sanitizing a sanitized path gives
\* the same path again.
SanitizeIdempotent ==
    Len(fnRes) = 2 => fnRes[2] = fnRes[1]

---------------------------------------------------------------------------
(* Claims about the content editor's size limit (SpecContent). *)

\* C11: GetFileContent and UpdateFileContent on a file whose file_size
\* exceeds 1 MiB return an error and leave its bytes and its row unchanged,
\* and a file of exactly 1 MiB is still readable and editable.
OversizedRefused ==
    [][\A p \in Procs, id \in DOMAIN files, c \in EditContents :
          LET owner == files[id].UserID
              read  == GetFileContent(p, id, owner, TRUE)
              edit  == UpdateFileContentFind(p, id, owner, c)
          IN  /\ ((read \/ edit) /\ files[id].FileSize > 1048576)
                 => /\ pc'[p] = "idle"
                    /\ res'.err # ""
                    /\ files' = files
                    /\ disk' = disk
              /\ (read /\ files[id].FileSize = 1048576
                       /\ files[id].FilePath \in DOMAIN disk)
                 => res'.err = ""
              /\ (edit /\ files[id].FileSize = 1048576)
                 => pc'[p] = "edit_write"]_vars

---------------------------------------------------------------------------
(* Claims about deleting the root folder (SpecRoot). *)

\* C12: DeleteFolder with an input path that sanitizes to the empty string
\* returns an error and deletes no row and no physical file.
RootDeleteRefused ==
    [][\A p \in Procs, u \in Users, t \in RootInputs :
          DeleteFolderFind(p, u, t, TRUE)
          => /\ pc'[p] = "idle"
             /\ res' = Result("delete_folder", u, "cannot delete root folder")
             /\ files' = files
             /\ disk' = disk]_vars

\* C12 witness: a DeleteFolder of the root was refused while the user held
\* a file in the root and a file in folder a, and both are still there with
\* their bytes.
RootDeleteSeen ==
    /\ res = Result("delete_folder", 1, "cannot delete root folder")
    /\ \E i, j \in DOMAIN files :
          /\ files[i].FolderPath = <<>> /\ files[j].FolderPath = <<"a">>
          /\ files[i].FilePath \in DOMAIN disk
          /\ files[j].FilePath \in DOMAIN disk
    /\ \A p \in Procs : pc[p] = "idle"

---------------------------------------------------------------------------
(* Claims about the frame of the logical operations (SpecRace). *)

\* The step is one of RenameFile, MoveFile or RenameFolder.
LogicalStep ==
    \E p \in Procs :
        /\ pc'[p] # pc[p]
        /\ (IF pc[p] = "idle" THEN req'[p].op ELSE req[p].op)
              \in {"rename", "move", "rename_folder"}

\* C13: RenameFolder, MoveFile and RenameFile never change any file's
\* file_path, physical filename, file_size, mime_type or physical bytes.
LogicalOpsKeepPhysical ==
    [][LogicalStep
       => /\ disk' = disk
          /\ DOMAIN files' = DOMAIN files
          /\ \A id \in DOMAIN files :
                /\ files'[id].FilePath = files[id].FilePath
                /\ files'[id].Filename = files[id].Filename
                /\ files'[id].FileSize = files[id].FileSize
                /\ files'[id].MimeType = files[id].MimeType]_vars

---------------------------------------------------------------------------
(* Claims about content validation of the general upload (SpecValidate). *)

\* The upload step is rejected and leaves no physical file and no record.
RejectedCleanly(p) ==
    /\ pc'[p] = "idle"
    /\ res'.op = "upload" /\ res'.err # ""
    /\ files' = files
    /\ disk' = disk

ScriptedMarkupRejected ==
    [][\A p \in Procs, u \in Users, n \in ValidateNames, d \in DeclaredTypes,
          c \in ValidateContents :
          (IsMarkupType(DetectContentType(c.Type)) /\ c.MarkerEnd # 0
             /\ UploadValidate(p, u, FileHeader(n, d, Sniff(c)), <<>>, TRUE))
          => /\ RejectedCleanly(p)
             /\ res'.err = "file contains potentially dangerous content"]_vars

\* C16: the mime_type stored for an uploaded file is the content type
\* verified from its bytes, never the client-declared one: two stored
\* uploads with identical bytes have the same mime_type.
StoredMimeVerified ==
    \A i, j \in DOMAIN files :
        (/\ files[i].FilePath \in DOMAIN disk
         /\ files[j].FilePath \in DOMAIN disk
         /\ disk[files[i].FilePath] = disk[files[j].FilePath])
        => /\ files[i].MimeType = files[j].MimeType
           /\ files[i].MimeType = disk[files[i].FilePath].Detected

\* C17: no stored file has an empty original_name.
OriginalNameNotEmpty ==
    \A id \in DOMAIN files : files[id].OriginalName # <<>>

---------------------------------------------------------------------------
(* Claims about the public URL (SpecURL). *)

\* C18: the url returned by the upload equals the url recomputed on every
\* later read of the file, and equals {publicBase}/{userId}/{date}/{file}
\* with forward slashes, for every configured storage root.
URLStable ==
    fnRes # <<>> =>
        /\ fnRes[2] = fnRes[1]
        /\ fnRes[3] = fnRes[1]
        /\ fnRes[1] = <<"h", "/", "1", "/", "d", "/", "f", ".", "t">>

---------------------------------------------------------------------------
(* Claims about settings updates (SpecSettings). *)

\* The limit a field has after a settings update that supplies value.
Applied(value, old) == IF value > 0 THEN value ELSE old

\* C19: a settings update applies a supplied limit only when it is
\* positive, a zero or negative value leaves that field as it was, each
\* field is updated independently of the other two, and max_files,
\* max_file_size and max_storage stay positive.
SettingsStayPositive ==
    /\ [](\A u \in Users : /\ users[u].MaxFiles > 0
                          /\ users[u].MaxFileSize > 0
                          /\ users[u].MaxStorage > 0)
    /\ [][\A p \in Procs, u \in Users, s \in SettingsInputs :
             UpdateUserSettings(p, u, s, TRUE)
             => /\ users'[u].MaxFiles = Applied(s.MaxFiles, users[u].MaxFiles)
                /\ users'[u].MaxFileSize = Applied(s.MaxFileSize, users[u].MaxFileSize)
                /\ users'[u].MaxStorage = Applied(s.MaxStorage, users[u].MaxStorage)
                /\ \A v \in Users \ {u} : users'[v] = users[v]]_vars

\* C19 witness: after successful updates user 1 has a new max_files and a
\* new max_storage while max_file_size, for which only zero and negative
\* values were supplied, is still the default.
SettingsPartlyApplied ==
    /\ res = Result("settings", 1, "")
    /\ users[1].MaxFiles = 2
    /\ users[1].MaxFileSize = DefaultLimits[1].MaxFileSize
    /\ users[1].MaxStorage = 2
    /\ users[2] = DefaultLimits[2]

---------------------------------------------------------------------------
(* Claims about the image normalizer (SpecImage). *)

\* C20: a GIF given to the normalizer yields final type image/jpeg; the
\* normalizer returns image/png only for PNG input and image/jpeg for JPEG,
\* GIF and any other detected type, and the stored extension matches the
\* final type (.png or .jpg).
FinalTypeNormalized ==
    (fnRes # <<>> /\ fnRes[1].Err = "") =>
        /\ fnArg.mimeType = "image/gif" => fnRes[1].MimeType = "image/jpeg"
        /\ fnRes[1].MimeType =
              (IF fnArg.mimeType = "image/png" THEN "image/png" ELSE "image/jpeg")
        /\ fnRes[2] = (IF fnRes[1].MimeType = "image/png" THEN ".png" ELSE ".jpg")

\* C20 witness: a decodable GIF was normalized to image/jpeg with
\* extension .jpg.
GifBecameJpeg ==
    /\ fnRes # <<>>
    /\ fnArg.mimeType = "image/gif"
    /\ fnArg.image.Decodable
    /\ fnRes[1].MimeType = "image/jpeg"
    /\ fnRes[2] = ".jpg"

\* C21: every decodable image is normalized to at most 2048 x 2048; an
\* image already within the limit keeps its dimensions (never upscaled),
\* and a larger one fills one side of the 2048 x 2048 box with the other
\* side within one pixel of the original aspect ratio.
DimensionsNormalized ==
    (fnRes # <<>> /\ fnArg.image.Decodable) =>
        LET w == fnArg.image.Width
            h == fnArg.image.Height
            W == fnRes[1].Width
            H == fnRes[1].Height
        IN  /\ fnRes[1].Err = ""
            /\ W <= 2048 /\ H <= 2048
            /\ W >= 1 /\ H >= 1
            /\ (w <= 2048 /\ h <= 2048) => (W = w /\ H = h)
            /\ (w > 2048 \/ h > 2048) =>
                  \/ W = 2048 /\ H * w <= 2048 * h + w /\ 2048 * h <= H * w + w
                  \/ H = 2048 /\ W * h <= 2048 * w + h /\ 2048 * w <= W * h + h

\* C21 witness: a 2049 x 4096 picture was stored as 1024 x 2048.
ImageScaledDown ==
    /\ fnRes # <<>>
    /\ fnArg.image = Image(2049, 4096, TRUE)
    /\ fnRes[1].Err = ""
    /\ fnRes[1].Width = 1024
    /\ fnRes[1].Height = 2048

---------------------------------------------------------------------------
(* Claims about the image upload path (SpecImageUpload). *)

\* An upload that is not an image the path accepts: its detected type is
\* not JPEG, PNG or GIF, or its bytes do not decode.
NonImage(fileHeader) ==
    \/ fileHeader.Body.Kind \notin {"image/jpeg", "image/png", "image/gif"}
    \/ ~fileHeader.Body.Image.Decodable

\* C22: the image upload path never stores a non-image: an upload whose
\* detected type is not JPEG, PNG or GIF is rejected by the validation
\* step, one whose bytes do not decode is rejected by the processing step,
\* both with an error and with no physical file and no record created.
NonImageNeverStored ==
    [][/\ \A h \in ImageHeaders, io \in {"open", "read", "ok"} :
            (UploadImageValidate(1, 1, h, io)
                /\ h.Body.Kind \notin {"image/jpeg", "image/png", "image/gif"})
            => (pc'[1] = "idle" /\ res'.err # ""
                /\ files' = files /\ disk' = disk)
       /\ (pc[1] = "image_write" /\ NonImage(req[1].header))
            => (pc'[1] = "idle" /\ res'.err # ""
                /\ files' = files /\ disk' = disk)
       /\ (pc[1] = "image_create") => ~NonImage(req[1].header)]_vars

\* C22 witness: an upload of an allowed type whose bytes do not decode was
\* rejected by processImage while the disk and the table are empty.
UndecodableRejected ==
    /\ res = Result("upload_image", 1, "failed to process image")
    /\ files = <<>>
    /\ disk = <<>>

\* C23: a failed upload leaves nothing behind: every physical file on disk
\* is referenced by a metadata record or belongs to an upload that is still
\* between writing the file and creating its record.
FailedUploadLeavesNothing ==
    \A f \in DOMAIN disk :
        \/ \E id \in DOMAIN files : files[id].FilePath = f
        \/ \E p \in Procs : pc[p] = "image_create" /\ req[p].filePath = f

---------------------------------------------------------------------------
(* Claims about DeleteFile (SpecDelete). *)

\* C24: DeleteFile by the owner removes the bytes first and the record
\* second: with the bytes already missing it goes on to the record; when
\* removing the bytes fails for another reason it returns an error and
\* keeps the record and the bytes; when deleting the record fails after the
\* bytes were removed it returns that error; when it succeeds neither the
\* record nor the bytes remain.
DeleteBytesThenRecord ==
    [][/\ \A rmOK \in BOOLEAN :
            DeleteFileRemove(1, rmOK) =>
                /\ files' = files
                /\ (rmOK \/ req[1].file.FilePath \notin DOMAIN disk)
                      => (pc'[1] = "delete_row"
                          /\ req[1].file.FilePath \notin DOMAIN disk')
                /\ (~rmOK /\ req[1].file.FilePath \in DOMAIN disk)
                      => (/\ pc'[1] = "idle"
                          /\ res' = Result("delete", 1, "failed to delete physical file")
                          /\ disk' = disk
                          /\ req[1].fileID \in DOMAIN files')
       /\ DeleteFileRow(1, FALSE) =>
                /\ res' = Result("delete", 1, "failed to delete file metadata")
                /\ req[1].file.FilePath \notin DOMAIN disk'
       /\ DeleteFileRow(1, TRUE) =>
                /\ res' = Result("delete", 1, "")
                /\ req[1].fileID \notin DOMAIN files'
                /\ req[1].file.FilePath \notin DOMAIN disk'
       /\ (pc[1] # "idle" /\ req[1].op = "delete" /\ pc'[1] = "idle" /\ res'.err = "")
                => pc[1] = "delete_row"]_vars

\* C24 witness: after a DeleteFile of the only file stored so far removed
\* the bytes and failed to delete the record, a second DeleteFile of that
\* file, whose bytes are now missing, has passed os.Remove and reached the
\* delete of the record.
DeleteWithMissingBytes ==
    /\ pc[1] = "delete_row"
    /\ res = Result("delete", 1, "failed to delete file metadata")
    /\ nextID = 2
    /\ req[1].fileID = 1
    /\ 1 \in DOMAIN files

---------------------------------------------------------------------------
(* Claims about the frame of RenameFolder (SpecFrame). *)

\* C25: RenameFolder(user, oldPath, newName) leaves the folder_path of a
\* file unchanged unless it was oldPath or began with oldPath + "/".
RenameFolderFrame ==
    [][(pc[1] = "rename_folder_children" /\ pc'[1] = "idle")
       => \A id \in DOMAIN req[1].snap :
             LET was == req[1].snap[id].FolderPath
             IN  (was # req[1].oldPath /\ ~Below(was, req[1].oldPath))
                    => files'[id].FolderPath = was]_vars

---------------------------------------------------------------------------
(* Claims about requests that interleave on one file (SpecRace). *)

\* C26: concurrent metadata updates of one file do not lose each other's
\* effect: a RenameFile that completes leaves the folder_path the file has
\* at that moment (set by a MoveFile or RenameFolder meanwhile), and a
\* MoveFile that completes leaves its original_name, so that after both
\* have completed the file carries the new name and the new folder.
NoLostUpdate ==
    [][\A p \in Procs :
          /\ (pc[p] = "rename_save" /\ pc'[p] = "idle" /\ res'.err = "")
                => /\ files'[1].OriginalName = req[p].file.OriginalName
                   /\ files'[1].FolderPath = files[1].FolderPath
          /\ (pc[p] = "move_save" /\ pc'[p] = "idle" /\ res'.err = "")
                => /\ files'[1].FolderPath = req[p].file.FolderPath
                   /\ files'[1].OriginalName = files[1].OriginalName]_vars

---------------------------------------------------------------------------
(* Claims about interleaved content edits (SpecEditRace). *)

\* C27: when no writeContent call is in progress, the record's file_size
\* equals the length of the bytes on disk, however the calls that have
\* completed interleaved.
FileSizeMatchesAfterRace ==
    (\A p \in Procs : pc[p] = "idle")
        => files[1].FileSize = disk[files[1].FilePath].Len

---------------------------------------------------------------------------
(* Claims about quotas under content edits (SpecQuotaEdit). *)

\* C28: with the user's limits unchanged, after any sequence of uploads and
\* writeContent calls the sum of the user's file sizes is at most
\* max_storage and every file's file_size is at most max_file_size.
EditsWithinQuota ==
    \A u \in Users :
        /\ GetTotalSizeByUserID(u) <= users[u].MaxStorage
        /\ \A id \in RowsOf(u) : files[id].FileSize <= users[u].MaxFileSize

---------------------------------------------------------------------------
(* Claims about DeleteFolder next to uploads (SpecFolderRace). *)

---------------------------------------------------------------------------
(* Claims about DeleteFile next to requests in flight (SpecDeleteRace). *)

\* C30: deletion is final: once DeleteFile has succeeded for the file (its
\* record is gone), no request that was in flight brings the record back,
\* and none brings back the physical bytes.
DeletionIsFinal ==
    [][1 \notin DOMAIN files
       => /\ 1 \notin DOMAIN files'
          /\ 1 \notin DOMAIN disk => 1 \notin DOMAIN disk']_vars

====
